---- MODULE Spec2Model ----
(***************************************************************************)
(* A model of lib/zookeeper.py: the Zookeeper wrapper (connection state    *)
(* listener and worker, the epoch-validated lock) and ZkSharedCache.       *)
(*                                                                         *)
(* Every service instance owns one Zookeeper object.  Three kinds of       *)
(* thread act on it: the Kazoo transport thread, which calls               *)
(* _state_listener; the "libZK._state_handler" worker thread; and one      *)
(* application thread that calls get_lock / have_lock / release_lock.      *)
(* The coordination store is shared by all instances.                      *)
(***************************************************************************)
EXTENDS Integers, Sequences, FiniteSets, TLC

\* The service instances sharing one lock path.
Inst == {"A", "B"}

\* A bound on the number of state changes the transport delivers to
\* instance "A" (each increments conn_epoch).
MaxEpoch == 4

\* The same bound for its peer "B".
PeerEpoch == 1

EpochBound(i) == IF i = "A" THEN MaxEpoch ELSE PeerEpoch

\* The entry names and payloads used with the shared cache.
Names == {"p01", "p02"}
Payloads == {"x", "y"}

\* A bound on the clock.
MaxTime == 1

\* A bound on the length of the FIFO of newly stored entries of a cache
\* whose application stores at any time.
MaxQueue == 1

\* The time at which the clock of the expiry scenario stops.
ExpiryEnd == 6

\* A bound on the state changes the transport reports to an instance that
\* uses the shared cache.
CacheEpoch == 3

\* A bound on the number of party objects an instance makes.
MaxParty == 2

\* A bound on the _retries a caller of retry passes.
MaxRetries == 2

\* What the function handed to retry may return.
Results == {"r1", "r2"}

\* No party object.
NoParty == <<>>

\* No node.
Absent == "absent"

\* The empty dict.
EmptyMap == [n \in {} |-> 0]

\* An application that calls the cache freely.
AnyCall == <<"any">>

\* kazoo.client.KazooState
CONNECTED == "CONNECTED"
SUSPENDED == "SUSPENDED"
LOST == "LOST"

VARIABLES
    kstate,        \* [Inst -> KazooState]: the transport's current state
    session,       \* [Inst -> BOOLEAN]: the store holds a live session
    contenders,    \* Seq(Inst): the lock path's ephemeral children, in store order
    state_events,  \* [Inst -> Seq(KazooState)]: self._state_events
    old_state,     \* [Inst -> state]: old_state of _state_handler
    hpc,           \* [Inst -> label]: position of the state worker: "get" at
                   \*   self._state_events.get(), else inside _state_connected
    on_hooks,      \* [Inst -> BOOLEAN]: on_connect and on_disconnect were given
    hook_log,      \* [Inst -> Seq(hook)]: history: the hooks invoked, in order
    conn_epoch,    \* [Inst -> Nat]: self.conn_epoch
    connected,     \* [Inst -> BOOLEAN]: self._connected
    zk_lock,       \* [Inst -> BOOLEAN]: self._zk_lock is not None
    is_acquired,   \* [Inst -> BOOLEAN]: self._zk_lock.is_acquired
    lock,          \* [Inst -> BOOLEAN]: self._lock
    lock_epoch,    \* [Inst -> Nat]: self._lock_epoch
    pc,            \* [Inst -> label]: position of the application thread
    callsite,      \* [Inst -> site]: where the running have_lock/release_lock
                   \*   was called from
    ret,           \* [Inst -> result]: what the last finished call returned
    now,           \* SCIONTime.get_time()
    zk_cache,      \* [Names -> payload or Absent]: the cache path's children
    entries,       \* [Inst -> [some names -> timestamp]]: self._entries
    incoming,      \* [Inst -> Seq(<<name, ts>>)]: self._incoming_entries
    wpc,           \* [Inst -> label]: position of the thread calling store()
    warg,          \* [Inst -> <<name, value>>]: the arguments of that store()
    wret,          \* [Inst -> result]: what the last store() returned
    mpc,           \* [Inst -> label]: position of the process()/expire() thread
    mop,           \* [Inst -> "process" or "expire"]: the call that thread made
    mret,          \* [Inst -> result]: what that call returned
    current,       \* [Inst -> SUBSET Names]: process's listing of the children
    todo,          \* [Inst -> SUBSET Names]: names the running loop has yet to visit
    data,          \* [Inst -> [Names -> payload or Absent]]: payloads fetched by
                   \*   _handle_entries, by entry name
    quiet,         \* [Inst -> BOOLEAN]: history: no child was created or deleted
                   \*   since process listed the children
    xnow,          \* [Inst -> time]: now of the running expire()
    xttl,          \* [Inst -> ttl]: ttl of the running expire()
    swept,         \* [Inst -> SUBSET Names]: history: the names whose node the
                   \*   running expire() has deleted
    script,        \* [Inst -> Seq(call)]: the cache calls the application of
                   \*   the instance makes, in order, one after the other;
                   \*   <<AnyCall>>: any call at any time, store() on one
                   \*   thread and process()/expire() on another
    parties,       \* [Inst -> party or NoParty]: self._parties[party_path]; a
                   \*   party is <<k, autojoin>>, the k-th ZkParty the
                   \*   instance made
    party_nodes,   \* SUBSET (Inst \X Nat): the party path's ephemeral
                   \*   children: <<i, k>> is the node of the k-th party of i
    ppc,           \* [Inst -> label]: position of the thread in party_setup
    pobj,          \* [Inst -> party]: the party of the last party_setup
    pret,          \* [Inst -> result]: what the last party_setup returned
    rpc,           \* [Inst -> label]: position of the thread in retry
    retries,       \* [Inst -> Nat]: _retries of the running retry
    timeout,       \* [Inst -> BOOLEAN]: _timeout of the running retry is a
                   \*   number of seconds (FALSE: None, wait for ever)
    count,         \* [Inst -> Int]: count of the running retry
    attempts,      \* [Inst -> Nat]: history: the waits that timed out and
                   \*   the executions of f in the last retry
    execs,         \* [Inst -> Nat]: history: the executions of f among them
    fres,          \* [Inst -> result]: what the last execution of f gave
    rret,          \* [Inst -> result]: what the last retry returned or raised
    opc,           \* [Inst -> label]: position of a second application
                   \*   thread, which calls have_lock() on the same object
    oepoch,        \* [Inst -> Nat]: the self._lock_epoch that thread read
    oret,          \* [Inst -> result]: what its last have_lock() returned
    seen           \* [Inst -> BOOLEAN]: history: at some instant since that
                   \*   thread entered have_lock(), connected and the
                   \*   acquired bit were set and _lock_epoch was conn_epoch

cacheVars == <<now, zk_cache, entries, incoming, wpc, warg, wret, mpc, mop,
               mret, current, todo, data, quiet, xnow, xttl, swept, script>>

\* The registered party, the party path's children and the thread in
\* party_setup.
partyVars == <<parties, party_nodes, ppc, pobj, pret>>

\* The thread in retry.
retryVars == <<rpc, retries, timeout, count, attempts, execs, fres, rret>>

\* The second application thread, and the history of its call.
watchLocals == <<opc, oepoch, oret>>
watchVars == <<watchLocals, seen>>

vars == <<kstate, session, contenders, state_events, old_state, hpc, on_hooks,
          hook_log, conn_epoch, connected, zk_lock, is_acquired, lock,
          lock_epoch, pc, callsite, ret, cacheVars, partyVars, retryVars,
          watchVars>>

transportVars == <<kstate, session>>
workerVars == <<old_state, connected, hpc, on_hooks, hook_log>>
lockVars == <<zk_lock, is_acquired, lock, lock_epoch>>
threadVars == <<pc, callsite, ret>>

\* The locals of a running expire() and its history.
sweepVars == <<xnow, xttl, swept>>

\* The variables of the lock and of its application thread.
lockSide == <<contenders, lockVars, threadVars>>

\* The variables of the connection: transport, listener and worker.
connVars == <<transportVars, state_events, conn_epoch, workerVars>>

\* The history of the call of the second thread of i, in a step that may
\* make the three hold together.
Noted(i) ==
    seen' = [seen EXCEPT ![i] =
                @ \/ (/\ opc[i] # "idle"
                      /\ connected'[i]
                      /\ lock'[i]
                      /\ lock_epoch'[i] = conn_epoch'[i])]

Without(seq, i) == SelectSeq(seq, LAMBDA x : x # i)

InSeq(seq, i) == \E k \in 1..Len(seq) : seq[k] = i

----------------------------------------------------------------------------
\* Zookeeper.__init__: the state before self._kazoo_start() connects.
InitState ==
    /\ kstate = [i \in Inst |-> LOST]
    /\ session = [i \in Inst |-> FALSE]
    /\ contenders = <<>>
    /\ state_events = [i \in Inst |-> <<>>]
    /\ old_state = [i \in Inst |-> "startup"]
    /\ hpc = [i \in Inst |-> "get"]
    /\ hook_log = [i \in Inst |-> <<>>]
    /\ conn_epoch = [i \in Inst |-> 0]
    /\ connected = [i \in Inst |-> FALSE]
    /\ zk_lock = [i \in Inst |-> FALSE]
    /\ is_acquired = [i \in Inst |-> FALSE]
    /\ lock = [i \in Inst |-> FALSE]
    /\ lock_epoch = [i \in Inst |-> 0]
    /\ pc = [i \in Inst |-> "idle"]
    /\ callsite = [i \in Inst |-> "none"]
    /\ ret = [i \in Inst |-> "none"]
    /\ now = 0
    /\ zk_cache = [n \in Names |-> Absent]
    /\ entries = [i \in Inst |-> EmptyMap]
    /\ incoming = [i \in Inst |-> <<>>]
    /\ wpc = [i \in Inst |-> "idle"]
    /\ warg = [i \in Inst |-> <<>>]
    /\ wret = [i \in Inst |-> "none"]
    /\ mpc = [i \in Inst |-> "idle"]
    /\ mop = [i \in Inst |-> "none"]
    /\ mret = [i \in Inst |-> "none"]
    /\ current = [i \in Inst |-> {}]
    /\ todo = [i \in Inst |-> {}]
    /\ data = [i \in Inst |-> [n \in Names |-> Absent]]
    /\ quiet = [i \in Inst |-> TRUE]
    /\ xnow = [i \in Inst |-> 0]
    /\ xttl = [i \in Inst |-> 0]
    /\ swept = [i \in Inst |-> {}]
    /\ parties = [i \in Inst |-> NoParty]
    /\ party_nodes = {}
    /\ ppc = [i \in Inst |-> "idle"]
    /\ pobj = [i \in Inst |-> <<0, FALSE>>]
    /\ rpc = [i \in Inst |-> "idle"]
    /\ retries = [i \in Inst |-> 0]
    /\ timeout = [i \in Inst |-> FALSE]
    /\ count = [i \in Inst |-> -1]
    /\ attempts = [i \in Inst |-> 0]
    /\ execs = [i \in Inst |-> 0]
    /\ fres = [i \in Inst |-> "none"]
    /\ rret = [i \in Inst |-> "none"]
    /\ opc = [i \in Inst |-> "idle"]
    /\ oepoch = [i \in Inst |-> 0]
    /\ oret = [i \in Inst |-> "none"]
    /\ seen = [i \in Inst |-> FALSE]
    /\ pret = [i \in Inst |-> "none"]

\* Objects made with on_connect=None and on_disconnect=None.
InitObjects ==
    /\ InitState
    /\ on_hooks = [i \in Inst |-> FALSE]

\* The objects right after construction, used by applications that call
\* the cache freely.
Init ==
    /\ InitObjects
    /\ script = [i \in Inst |-> <<AnyCall>>]

----------------------------------------------------------------------------
\* The transport thread.

\* A listener that counts only the CONNECTED changes.
_state_listener_connected_only(i, new_state) ==
    /\ conn_epoch' = [conn_epoch EXCEPT
                        ![i] = IF new_state = CONNECTED THEN @ + 1 ELSE @]
    /\ state_events' = [state_events EXCEPT ![i] = Append(@, new_state)]

\* A listener that puts the state at the head of the queue.
_state_listener_prepend(i, new_state) ==
    /\ conn_epoch' = [conn_epoch EXCEPT ![i] = @ + 1]
    /\ state_events' = [state_events EXCEPT ![i] = <<new_state>> \o @]

\* Zookeeper._state_listener: count the change, hand the state to the worker.
_state_listener(i, new_state) ==
    /\ conn_epoch' = [conn_epoch EXCEPT ![i] = @ + 1]
    /\ state_events' = [state_events EXCEPT ![i] = Append(@, new_state)]

\* The transport (re)connects: a suspended connection resumes its session,
\* a lost one opens a new session.
KazooConnected(i) ==
    /\ conn_epoch[i] < EpochBound(i)
    /\ kstate[i] # CONNECTED
    /\ kstate[i] = SUSPENDED => session[i]
    /\ kstate' = [kstate EXCEPT ![i] = CONNECTED]
    /\ session' = [session EXCEPT ![i] = TRUE]
    /\ _state_listener(i, CONNECTED)
    /\ UNCHANGED <<cacheVars, partyVars, retryVars, watchVars, contenders, workerVars, lockVars, threadVars>>

\* The transport goes down; the session may still resume.
KazooSuspended(i) ==
    /\ conn_epoch[i] < EpochBound(i)
    /\ kstate[i] = CONNECTED
    /\ kstate' = [kstate EXCEPT ![i] = SUSPENDED]
    /\ _state_listener(i, SUSPENDED)
    /\ UNCHANGED <<cacheVars, partyVars, retryVars, watchVars, session, contenders, workerVars, lockVars, threadVars>>

\* The store expires the session of an instance whose transport is down and
\* deletes the ephemeral nodes created under it.
SessionExpired(i) ==
    /\ kstate[i] = SUSPENDED
    /\ session[i]
    /\ session' = [session EXCEPT ![i] = FALSE]
    /\ contenders' = Without(contenders, i)
    /\ party_nodes' = {m \in party_nodes : m[1] # i}
    /\ UNCHANGED <<cacheVars, parties, ppc, pobj, pret, retryVars, watchVars, kstate, state_events, conn_epoch, workerVars, lockVars,
                   threadVars>>

\* The transport learns that its session is gone.
KazooLost(i) ==
    /\ conn_epoch[i] < EpochBound(i)
    /\ kstate[i] = SUSPENDED
    /\ ~session[i]
    /\ kstate' = [kstate EXCEPT ![i] = LOST]
    /\ _state_listener(i, LOST)
    /\ UNCHANGED <<cacheVars, partyVars, retryVars, watchVars, session, contenders, workerVars, lockVars, threadVars>>

----------------------------------------------------------------------------
\* The state worker thread (Zookeeper._state_handler).

\* An autojoin that lists the members and never joins.
autojoin_list_only(i) ==
    party_nodes' = party_nodes

\* ZkParty.autojoin of the party registered by i: join() if the autojoin
\* flag is set; joining a party twice leaves its one node.
autojoin(i) ==
    party_nodes' = party_nodes \cup
                       (IF parties[i] # NoParty /\ parties[i][2]
                        THEN {<<i, parties[i][1]>>}
                        ELSE {})

\* if self._on_connect: self._on_connect(), and the same for on_disconnect.
invoke(i, hook) ==
    hook_log' = [hook_log EXCEPT ![i] = IF on_hooks[i] THEN Append(@, hook) ELSE @]

\* _state_connected returns to the loop of _state_handler.
StateConnectedReturn(i) ==
    hpc' = [hpc EXCEPT ![i] = "get"]

\* A _state_connected that invokes the hook and forgets the connected event.
StateConnectedSet_hook_only(i) ==
    /\ UNCHANGED connected
    /\ invoke(i, "on_connect")
    /\ StateConnectedReturn(i)

\* self._connected.set() and the on_connect hook.
StateConnectedSet(i) ==
    /\ connected' = [connected EXCEPT ![i] = TRUE]
    /\ invoke(i, "on_connect")
    /\ StateConnectedReturn(i)

\* A _state_connected that sets the connected event and invokes the hook
\* without the autojoin of the registered party.
_state_connected_no_autojoin(i) ==
    /\ hpc[i] \in {"connected", "autojoin"}
    /\ IF kstate[i] # CONNECTED
       THEN /\ StateConnectedReturn(i)
            /\ UNCHANGED <<connected, hook_log, party_nodes>>
       ELSE /\ StateConnectedSet(i)
            /\ UNCHANGED party_nodes
    /\ UNCHANGED <<cacheVars, parties, ppc, pobj, pret, retryVars, watchLocals, transportVars, contenders,
                   state_events, conn_epoch, old_state, on_hooks, lockVars, threadVars>>
    /\ Noted(i)

\* A _state_connected that passes over ZkNoConnection and goes on to set
\* the connected event.
_state_connected_set_anyway(i) ==
    /\ hpc[i] \in {"connected", "autojoin"}
    /\ IF hpc[i] = "connected" /\ parties[i] # NoParty /\ kstate[i] = CONNECTED
       THEN /\ autojoin(i)
            /\ hpc' = [hpc EXCEPT ![i] = "autojoin"]
            /\ UNCHANGED <<connected, hook_log>>
       ELSE /\ StateConnectedSet(i)
            /\ UNCHANGED party_nodes
    /\ UNCHANGED <<cacheVars, parties, ppc, pobj, pret, retryVars, watchLocals, transportVars, contenders,
                   state_events, conn_epoch, old_state, on_hooks, lockVars, threadVars>>
    /\ Noted(i)

\* Zookeeper._state_connected, one store request at a time: ensure_path
\* and the join of autojoin for the registered party, then its list();
\* then self._connected.set() and the on_connect hook. ZkNoConnection from
\* a request leaves the connected event clear.
_state_connected(i) ==
    /\ hpc[i] \in {"connected", "autojoin"}
    /\ IF kstate[i] # CONNECTED
       THEN /\ StateConnectedReturn(i)
            /\ UNCHANGED <<connected, hook_log, party_nodes>>
       ELSE IF hpc[i] = "connected" /\ parties[i] # NoParty
       THEN /\ autojoin(i)
            /\ hpc' = [hpc EXCEPT ![i] = "autojoin"]
            /\ UNCHANGED <<connected, hook_log>>
       ELSE /\ StateConnectedSet(i)
            /\ UNCHANGED party_nodes
    /\ UNCHANGED <<cacheVars, parties, ppc, pobj, pret, retryVars, watchLocals, transportVars, contenders,
                   state_events, conn_epoch, old_state, on_hooks, lockVars, threadVars>>
    /\ Noted(i)

\* A _state_suspended that leaves the connected event as it is.
_state_suspended_no_clear(i) ==
    /\ UNCHANGED connected
    /\ invoke(i, "on_disconnect")
    /\ UNCHANGED hpc

\* Zookeeper._state_suspended
_state_suspended(i) ==
    /\ connected' = [connected EXCEPT ![i] = FALSE]
    /\ invoke(i, "on_disconnect")
    /\ UNCHANGED hpc

\* Zookeeper._state_lost
_state_lost(i) ==
    /\ connected' = [connected EXCEPT ![i] = FALSE]
    /\ invoke(i, "on_disconnect")
    /\ UNCHANGED hpc

\* A de-bounce that records the CONNECTED it drops as the old state.
StateHandlerFlap_records(i) ==
    /\ hpc[i] = "get"
    /\ state_events[i] # <<>>
    /\ Head(state_events[i]) = CONNECTED
    /\ Tail(state_events[i]) # <<>>
    /\ state_events' = [state_events EXCEPT ![i] = Tail(@)]
    /\ old_state' = [old_state EXCEPT ![i] = CONNECTED]
    /\ UNCHANGED <<cacheVars, partyVars, retryVars, watchVars, transportVars, contenders, conn_epoch,
                   connected, hpc, on_hooks, hook_log, lockVars, threadVars>>

\* A CONNECTED is dequeued while a later state is already queued: dropped.
StateHandlerFlap(i) ==
    /\ hpc[i] = "get"
    /\ state_events[i] # <<>>
    /\ Head(state_events[i]) = CONNECTED
    /\ Tail(state_events[i]) # <<>>
    /\ state_events' = [state_events EXCEPT ![i] = Tail(@)]
    /\ UNCHANGED <<cacheVars, partyVars, retryVars, watchVars, transportVars, contenders, conn_epoch, workerVars, lockVars,
                   threadVars>>

\* The dequeued state equals old_state: dropped.
StateHandlerSame(i) ==
    /\ hpc[i] = "get"
    /\ state_events[i] # <<>>
    /\ ~(Head(state_events[i]) = CONNECTED /\ Tail(state_events[i]) # <<>>)
    /\ Head(state_events[i]) = old_state[i]
    /\ state_events' = [state_events EXCEPT ![i] = Tail(@)]
    /\ UNCHANGED <<cacheVars, partyVars, retryVars, watchVars, transportVars, contenders, conn_epoch, workerVars, lockVars,
                   threadVars>>

\* A worker that dispatches a new state and leaves old_state as it was.
StateHandlerDispatch_keep_old(i) ==
    /\ hpc[i] = "get"
    /\ state_events[i] # <<>>
    /\ ~(Head(state_events[i]) = CONNECTED /\ Tail(state_events[i]) # <<>>)
    /\ Head(state_events[i]) # old_state[i]
    /\ state_events' = [state_events EXCEPT ![i] = Tail(@)]
    /\ CASE Head(state_events[i]) = CONNECTED ->
                /\ hpc' = [hpc EXCEPT ![i] = "connected"]
                /\ UNCHANGED <<connected, hook_log>>
         [] Head(state_events[i]) = SUSPENDED -> _state_suspended(i)
         [] OTHER -> _state_lost(i)
    /\ UNCHANGED <<cacheVars, partyVars, retryVars, watchVars, transportVars, contenders, conn_epoch,
                   old_state, on_hooks, lockVars, threadVars>>

\* The dequeued state is new: old_state is updated and the state dispatched:
\* _state_suspended and _state_lost run at once, _state_connected is entered.
StateHandlerDispatch(i) ==
    /\ hpc[i] = "get"
    /\ state_events[i] # <<>>
    /\ ~(Head(state_events[i]) = CONNECTED /\ Tail(state_events[i]) # <<>>)
    /\ Head(state_events[i]) # old_state[i]
    /\ state_events' = [state_events EXCEPT ![i] = Tail(@)]
    /\ old_state' = [old_state EXCEPT ![i] = Head(state_events[i])]
    /\ CASE Head(state_events[i]) = CONNECTED ->
                /\ hpc' = [hpc EXCEPT ![i] = "connected"]
                /\ UNCHANGED <<connected, hook_log>>
         [] Head(state_events[i]) = SUSPENDED -> _state_suspended(i)
         [] OTHER -> _state_lost(i)
    /\ UNCHANGED <<cacheVars, partyVars, retryVars, watchVars, transportVars, contenders, conn_epoch,
                   on_hooks, lockVars, threadVars>>

\* The handler the worker calls for a state.
HandlerOf(s) ==
    CASE s = CONNECTED -> "connected"
      [] s = SUSPENDED -> "suspended"
      [] OTHER -> "lost"

\* Lines 200-206 as a step of their own: the dequeued state is new, it
\* becomes old_state and its handler is entered. old_state is a local of
\* the worker, so the other definitions take this step together with the
\* clear() that opens _state_suspended and _state_lost; here the state in
\* between is kept, for what is said of old_state and the connected event
\* together.
StateHandlerAssign(i) ==
    /\ hpc[i] = "get"
    /\ state_events[i] # <<>>
    /\ ~(Head(state_events[i]) = CONNECTED /\ Tail(state_events[i]) # <<>>)
    /\ Head(state_events[i]) # old_state[i]
    /\ state_events' = [state_events EXCEPT ![i] = Tail(@)]
    /\ old_state' = [old_state EXCEPT ![i] = Head(state_events[i])]
    /\ hpc' = [hpc EXCEPT ![i] = HandlerOf(Head(state_events[i]))]
    /\ UNCHANGED <<cacheVars, partyVars, retryVars, watchVars, transportVars, contenders, conn_epoch,
                   connected, hook_log, on_hooks, lockVars, threadVars>>

\* A handler that invokes on_disconnect and leaves the connected event set.
StateDisconnected_no_clear(i) ==
    /\ hpc[i] \in {"suspended", "lost"}
    /\ invoke(i, "on_disconnect")
    /\ hpc' = [hpc EXCEPT ![i] = "get"]
    /\ UNCHANGED <<cacheVars, partyVars, retryVars, watchVars, transportVars, contenders, state_events,
                   conn_epoch, connected, old_state, on_hooks, lockVars, threadVars>>

\* _state_suspended and _state_lost, entered by StateHandlerAssign:
\* self._connected.clear(), the on_disconnect hook, back to the loop.
StateDisconnected(i) ==
    /\ hpc[i] \in {"suspended", "lost"}
    /\ connected' = [connected EXCEPT ![i] = FALSE]
    /\ invoke(i, "on_disconnect")
    /\ hpc' = [hpc EXCEPT ![i] = "get"]
    /\ UNCHANGED <<cacheVars, partyVars, retryVars, watchVars, transportVars, contenders, state_events,
                   conn_epoch, old_state, on_hooks, lockVars, threadVars>>

----------------------------------------------------------------------------
\* The application thread.

\* __init__ returns only after kazoo.start() has connected once.
Started(i) == conn_epoch[i] > 0

\* Zookeeper.is_connected
is_connected(i) == connected[i]

\* have_lock returns r to the place it was called from.
have_lock_return(i, r) ==
    IF callsite[i] = "gl_entry" /\ r = "false"
    THEN /\ pc' = [pc EXCEPT ![i] = "gl_wait"]
         /\ callsite' = [callsite EXCEPT ![i] = "gl_exit"]
         /\ UNCHANGED ret
    ELSE /\ pc' = [pc EXCEPT ![i] = "idle"]
         /\ ret' = [ret EXCEPT ![i] = r]
         /\ UNCHANGED callsite

\* release_lock returns: to its caller, or into have_lock, which returns False.
release_lock_return(i) ==
    IF callsite[i] = "release_lock"
    THEN /\ pc' = [pc EXCEPT ![i] = "idle"]
         /\ UNCHANGED <<cacheVars, partyVars, retryVars, watchVars, callsite, ret>>
    ELSE have_lock_return(i, "false")

\* The application calls have_lock().
CallHaveLock(i) ==
    /\ Started(i)
    /\ pc[i] = "idle"
    /\ pc' = [pc EXCEPT ![i] = "have_lock"]
    /\ callsite' = [callsite EXCEPT ![i] = "have_lock"]
    /\ ret' = [ret EXCEPT ![i] = "none"]
    /\ UNCHANGED <<cacheVars, partyVars, retryVars, watchVars, transportVars, contenders, state_events, conn_epoch,
                   workerVars, lockVars>>

\* A have_lock that forgets the epoch.
have_lock_cond_no_epoch(i) ==
    /\ connected[i]
    /\ lock[i]

\* The condition have_lock evaluates: connected, the epoch recorded by
\* get_lock is still the current one, and the acquired bit is set.  The
\* instance's single application thread is the only writer of _lock and
\* _lock_epoch and conn_epoch only grows, so the three reads take the values
\* of one instant.
have_lock_cond(i) ==
    /\ is_connected(i)
    /\ lock_epoch[i] = conn_epoch[i]
    /\ lock[i]

\* have_lock: return True if the condition holds, else go through
\* release_lock and return False.
HaveLock(i) ==
    /\ pc[i] = "have_lock"
    /\ IF have_lock_cond(i)
       THEN have_lock_return(i, "true")
       ELSE /\ pc' = [pc EXCEPT ![i] = "rl_clear"]
            /\ UNCHANGED <<cacheVars, partyVars, retryVars, watchVars, callsite, ret>>
    /\ UNCHANGED <<cacheVars, partyVars, retryVars, watchVars, transportVars, contenders, state_events, conn_epoch,
                   workerVars, lockVars>>

\* The application calls release_lock().
CallReleaseLock(i) ==
    /\ Started(i)
    /\ pc[i] = "idle"
    /\ pc' = [pc EXCEPT ![i] = "rl_clear"]
    /\ callsite' = [callsite EXCEPT ![i] = "release_lock"]
    /\ ret' = [ret EXCEPT ![i] = "none"]
    /\ UNCHANGED <<cacheVars, partyVars, retryVars, watchVars, transportVars, contenders, state_events, conn_epoch,
                   workerVars, lockVars>>

\* A release_lock that leaves the acquired bit as it is.
ReleaseLockClear_keep_bit(i) ==
    /\ pc[i] = "rl_clear"
    /\ IF zk_lock[i]
       THEN /\ pc' = [pc EXCEPT ![i] = "rl_release"]
            /\ UNCHANGED <<cacheVars, partyVars, retryVars, watchVars, callsite, ret>>
       ELSE release_lock_return(i)
    /\ UNCHANGED <<cacheVars, partyVars, retryVars, watchVars, transportVars, contenders, state_events, conn_epoch,
                   workerVars, lockVars>>

\* release_lock: self._lock.clear(); return if there is no Kazoo lock yet.
ReleaseLockClear(i) ==
    /\ pc[i] = "rl_clear"
    /\ lock' = [lock EXCEPT ![i] = FALSE]
    /\ IF zk_lock[i]
       THEN /\ pc' = [pc EXCEPT ![i] = "rl_release"]
            /\ UNCHANGED <<cacheVars, partyVars, retryVars, watchVars, callsite, ret>>
       ELSE release_lock_return(i)
    /\ UNCHANGED <<cacheVars, partyVars, retryVars, watchVars, transportVars, contenders, state_events, conn_epoch,
                   workerVars, zk_lock, is_acquired, lock_epoch>>

\* kazoo Lock.release(): delete the own contender node when the lock object
\* believes it is acquired; with the transport down it raises ConnectionLoss
\* or SessionExpiredError and the node stays.
zk_lock_release(i) ==
    IF kstate[i] = CONNECTED /\ is_acquired[i]
    THEN contenders' = Without(contenders, i)
    ELSE UNCHANGED contenders

\* A release_lock that releases against the store whatever connected says.
ReleaseLockStore_unconditional(i) ==
    /\ pc[i] = "rl_release"
    /\ zk_lock_release(i)
    /\ is_acquired' = [is_acquired EXCEPT ![i] = FALSE]
    /\ release_lock_return(i)
    /\ UNCHANGED <<cacheVars, partyVars, retryVars, watchVars, transportVars, state_events, conn_epoch, workerVars,
                   zk_lock, lock, lock_epoch>>

\* release_lock: release against the store if connected (errors swallowed),
\* then force is_acquired to False.
ReleaseLockStore(i) ==
    /\ pc[i] = "rl_release"
    /\ IF is_connected(i)
       THEN zk_lock_release(i)
       ELSE UNCHANGED contenders
    /\ is_acquired' = [is_acquired EXCEPT ![i] = FALSE]
    /\ release_lock_return(i)
    /\ UNCHANGED <<cacheVars, partyVars, retryVars, watchVars, transportVars, state_events, conn_epoch, workerVars,
                   zk_lock, lock, lock_epoch>>

\* A get_lock without the have_lock() check at its entry.
CallGetLock_no_check(i) ==
    /\ Started(i)
    /\ pc[i] = "idle"
    /\ ret' = [ret EXCEPT ![i] = "none"]
    /\ zk_lock' = [zk_lock EXCEPT ![i] = TRUE]
    /\ pc' = [pc EXCEPT ![i] = "gl_wait"]
    /\ callsite' = [callsite EXCEPT ![i] = "gl_exit"]
    /\ UNCHANGED <<cacheVars, partyVars, retryVars, watchVars, transportVars, contenders, state_events, conn_epoch,
                   workerVars, is_acquired, lock, lock_epoch>>

\* The application calls get_lock(): first-time setup of the Kazoo lock, or
\* the have_lock() check of an existing one.
CallGetLock(i) ==
    /\ Started(i)
    /\ pc[i] = "idle"
    /\ ret' = [ret EXCEPT ![i] = "none"]
    /\ IF ~zk_lock[i]
       THEN /\ zk_lock' = [zk_lock EXCEPT ![i] = TRUE]
            /\ pc' = [pc EXCEPT ![i] = "gl_wait"]
            /\ callsite' = [callsite EXCEPT ![i] = "gl_exit"]
       ELSE /\ pc' = [pc EXCEPT ![i] = "have_lock"]
            /\ callsite' = [callsite EXCEPT ![i] = "gl_entry"]
            /\ UNCHANGED zk_lock
    /\ UNCHANGED <<cacheVars, partyVars, retryVars, watchVars, transportVars, contenders, state_events, conn_epoch,
                   workerVars, is_acquired, lock, lock_epoch>>

\* get_lock: wait_connected(timeout=conn_timeout) returns once connected is
\* set, and raises ZkNoConnection when the timeout expires first.
GetLockWaitConnected(i) ==
    /\ pc[i] = "gl_wait"
    /\ IF is_connected(i)
       THEN /\ pc' = [pc EXCEPT ![i] = "gl_record"]
            /\ UNCHANGED ret
       ELSE /\ pc' = [pc EXCEPT ![i] = "idle"]
            /\ ret' = [ret EXCEPT ![i] = "ZkNoConnection"]
    /\ UNCHANGED <<cacheVars, partyVars, retryVars, watchVars, transportVars, contenders, state_events, conn_epoch,
                   workerVars, lockVars, callsite>>

\* get_lock: self._lock_epoch = self.conn_epoch
GetLockRecordEpoch(i) ==
    /\ pc[i] = "gl_record"
    /\ lock_epoch' = [lock_epoch EXCEPT ![i] = conn_epoch[i]]
    /\ pc' = [pc EXCEPT ![i] = "gl_acquire"]
    /\ UNCHANGED <<cacheVars, partyVars, retryVars, watchLocals, transportVars, contenders, state_events, conn_epoch,
                   workerVars, zk_lock, is_acquired, lock, callsite, ret>>
    /\ Noted(i)

\* Inside kazoo Lock.acquire(): the contender node is created (or found).
AcquireContend(i) ==
    /\ pc[i] = "gl_acquire"
    /\ kstate[i] = CONNECTED
    /\ ~InSeq(contenders, i)
    /\ contenders' = Append(contenders, i)
    /\ UNCHANGED <<cacheVars, partyVars, retryVars, watchVars, transportVars, state_events, conn_epoch, workerVars,
                   lockVars, threadVars>>

\* The store grants the lock to the first contender.
Granted(i) ==
    /\ kstate[i] = CONNECTED
    /\ contenders # <<>>
    /\ Head(contenders) = i

\* A get_lock that forgets self._lock.set() after a successful acquire().
GetLockAcquired_no_set(i) ==
    /\ pc[i] = "gl_acquire"
    /\ Granted(i)
    /\ is_acquired' = [is_acquired EXCEPT ![i] = TRUE]
    /\ pc' = [pc EXCEPT ![i] = "have_lock"]
    /\ UNCHANGED <<cacheVars, partyVars, retryVars, watchLocals, transportVars, contenders, state_events, conn_epoch,
                   workerVars, zk_lock, lock, lock_epoch, callsite, ret>>
    /\ Noted(i)

\* get_lock: acquire() returned True: set the acquired bit, go on to the
\* final have_lock().
GetLockAcquired(i) ==
    /\ pc[i] = "gl_acquire"
    /\ Granted(i)
    /\ is_acquired' = [is_acquired EXCEPT ![i] = TRUE]
    /\ lock' = [lock EXCEPT ![i] = TRUE]
    /\ pc' = [pc EXCEPT ![i] = "have_lock"]
    /\ UNCHANGED <<cacheVars, partyVars, retryVars, watchLocals, transportVars, contenders, state_events, conn_epoch,
                   workerVars, zk_lock, lock_epoch, callsite, ret>>
    /\ Noted(i)

\* acquire() is waiting: for the transport, or behind an earlier contender.
Blocked(i) ==
    \/ kstate[i] # CONNECTED
    \/ InSeq(contenders, i) /\ Head(contenders) # i

\* get_lock: lock_timeout expired while acquire() was waiting (LockTimeout,
\* or a False result): Kazoo removes the own contender node if it can; go on
\* to the final have_lock().
GetLockTimeout(i) ==
    /\ pc[i] = "gl_acquire"
    /\ Blocked(i)
    /\ contenders' = IF kstate[i] = CONNECTED THEN Without(contenders, i)
                     ELSE contenders
    /\ pc' = [pc EXCEPT ![i] = "have_lock"]
    /\ UNCHANGED <<cacheVars, partyVars, retryVars, watchVars, transportVars, state_events, conn_epoch, workerVars,
                   lockVars, callsite, ret>>

\* get_lock: acquire() raised ConnectionLoss or SessionExpiredError.
GetLockNoConnection(i) ==
    /\ pc[i] = "gl_acquire"
    /\ kstate[i] # CONNECTED
    /\ pc' = [pc EXCEPT ![i] = "idle"]
    /\ ret' = [ret EXCEPT ![i] = "ZkNoConnection"]
    /\ UNCHANGED <<cacheVars, partyVars, retryVars, watchVars, transportVars, contenders, state_events, conn_epoch,
                   workerVars, lockVars, callsite>>

----------------------------------------------------------------------------
\* A second application thread of the instance, which calls have_lock() on
\* the same object while the first is at any place of its own calls. Its
\* reads of the object are steps of their own.

\* The thread calls have_lock().
WatchCall(i) ==
    /\ Started(i)
    /\ opc[i] = "idle"
    /\ opc' = [opc EXCEPT ![i] = "is_connected"]
    /\ oret' = [oret EXCEPT ![i] = "none"]
    /\ seen' = [seen EXCEPT ![i] = have_lock_cond(i)]
    /\ UNCHANGED <<connVars, lockSide, cacheVars, partyVars, retryVars, oepoch>>

\* have_lock: self.is_connected()
WatchConnected(i) ==
    /\ opc[i] = "is_connected"
    /\ opc' = [opc EXCEPT ![i] = IF is_connected(i) THEN "_lock_epoch"
                                 ELSE "rl_clear"]
    /\ UNCHANGED <<connVars, lockSide, cacheVars, partyVars, retryVars,
                   oepoch, oret, seen>>

\* have_lock: the read of self._lock_epoch, the left operand of ==
WatchLockEpoch(i) ==
    /\ opc[i] = "_lock_epoch"
    /\ oepoch' = [oepoch EXCEPT ![i] = lock_epoch[i]]
    /\ opc' = [opc EXCEPT ![i] = "conn_epoch"]
    /\ UNCHANGED <<connVars, lockSide, cacheVars, partyVars, retryVars,
                   oret, seen>>

\* have_lock: the read of self.conn_epoch and the comparison.
WatchConnEpoch(i) ==
    /\ opc[i] = "conn_epoch"
    /\ opc' = [opc EXCEPT ![i] = IF oepoch[i] = conn_epoch[i] THEN "_lock"
                                 ELSE "rl_clear"]
    /\ UNCHANGED <<connVars, lockSide, cacheVars, partyVars, retryVars,
                   oepoch, oret, seen>>

\* have_lock: self._lock.is_set(); return True when it is.
WatchLock(i) ==
    /\ opc[i] = "_lock"
    /\ IF lock[i]
       THEN /\ opc' = [opc EXCEPT ![i] = "idle"]
            /\ oret' = [oret EXCEPT ![i] = "true"]
       ELSE /\ opc' = [opc EXCEPT ![i] = "rl_clear"]
            /\ UNCHANGED oret
    /\ UNCHANGED <<connVars, lockSide, cacheVars, partyVars, retryVars,
                   oepoch, seen>>

\* have_lock, else branch: release_lock: self._lock.clear(); return if there
\* is no Kazoo lock yet, and have_lock returns False.
WatchReleaseClear(i) ==
    /\ opc[i] = "rl_clear"
    /\ lock' = [lock EXCEPT ![i] = FALSE]
    /\ IF zk_lock[i]
       THEN /\ opc' = [opc EXCEPT ![i] = "rl_release"]
            /\ UNCHANGED oret
       ELSE /\ opc' = [opc EXCEPT ![i] = "idle"]
            /\ oret' = [oret EXCEPT ![i] = "false"]
    /\ UNCHANGED <<connVars, contenders, zk_lock, is_acquired, lock_epoch,
                   threadVars, cacheVars, partyVars, retryVars, oepoch, seen>>

\* release_lock: release against the store if connected, force is_acquired
\* to False; have_lock returns False.
WatchReleaseStore(i) ==
    /\ opc[i] = "rl_release"
    /\ IF is_connected(i)
       THEN zk_lock_release(i)
       ELSE UNCHANGED contenders
    /\ is_acquired' = [is_acquired EXCEPT ![i] = FALSE]
    /\ opc' = [opc EXCEPT ![i] = "idle"]
    /\ oret' = [oret EXCEPT ![i] = "false"]
    /\ UNCHANGED <<connVars, zk_lock, lock, lock_epoch, threadVars, cacheVars,
                   partyVars, retryVars, oepoch, seen>>

\* One step of the second application thread.
WatchStep(i) ==
    \/ WatchCall(i)
    \/ WatchConnected(i)
    \/ WatchLockEpoch(i)
    \/ WatchConnEpoch(i)
    \/ WatchLock(i)
    \/ WatchReleaseClear(i)
    \/ WatchReleaseStore(i)

----------------------------------------------------------------------------
\* ZkSharedCache: one cache object per instance, all on the same path.

\* The children of the cache path.
Children == {n \in Names : zk_cache[n] # Absent}

\* The key set of self._entries.
Keys(i) == DOMAIN entries[i]

\* A dict without the keys outside S.
Restrict(m, S) == [n \in (DOMAIN m) \cap S |-> m[n]]

\* SCIONTime.get_time() advances, up to a limit.
TickTo(limit) ==
    /\ now < limit
    /\ now' = now + 1
    /\ UNCHANGED <<connVars, lockSide, partyVars, retryVars, watchVars, sweepVars, zk_cache, entries, incoming, wpc, warg,
                   wret, mpc, mop, mret, current, todo, data, quiet, script>>

\* SCIONTime.get_time() advances.
Tick == TickTo(MaxTime)

\* A Kazoo request of instance i fails with ConnectionLoss or
\* SessionExpiredError.
KazooDown(i) == kstate[i] # CONNECTED

\* A dict that takes the new timestamp whether or not it has the key.
setdefault_overwrite(m, name, ts) ==
    [n \in (DOMAIN m) \cup {name} |-> IF n = name THEN ts ELSE m[n]]

\* dict.setdefault(name, ts) on a timestamp map.
setdefault(m, name, ts) ==
    IF name \in DOMAIN m THEN m
    ELSE [n \in (DOMAIN m) \cup {name} |-> IF n = name THEN ts ELSE m[n]]

\* process: drain the FIFO into the timestamp map, oldest record first.
RECURSIVE drain(_, _)
drain(m, q) ==
    IF q = <<>> THEN m
    ELSE drain(setdefault(m, Head(q)[1], Head(q)[2]), Tail(q))

\* The application of i makes the given cache call now: it is free to, or
\* the call is the next of its script and its previous call is over.
CanCall(i, call) ==
    /\ script[i] # <<>>
    /\ \/ Head(script[i]) = AnyCall
       \/ Head(script[i]) = call /\ wpc[i] = "idle" /\ mpc[i] = "idle"

\* The script of i once the call is made.
Called(i) ==
    [script EXCEPT ![i] = IF Head(@) = AnyCall THEN @ ELSE Tail(@)]

\* store(name, value): the connected check and self._kazoo.set().
StoreSet(i, name, value) ==
    /\ Started(i)
    /\ wpc[i] = "idle"
    /\ CanCall(i, <<"store", name, value>>)
    /\ script' = Called(i)
    /\ Len(incoming[i]) < MaxQueue \/ Head(script[i]) # AnyCall
    /\ IF ~is_connected(i) \/ KazooDown(i)
       THEN /\ wret' = [wret EXCEPT ![i] = "ZkNoConnection"]
            /\ UNCHANGED <<zk_cache, wpc, warg>>
       ELSE /\ wret' = [wret EXCEPT ![i] = "none"]
            /\ warg' = [warg EXCEPT ![i] = <<name, value>>]
            /\ IF zk_cache[name] # Absent
               THEN /\ zk_cache' = [zk_cache EXCEPT ![name] = value]
                    /\ wpc' = [wpc EXCEPT ![i] = "st_push"]
               ELSE /\ wpc' = [wpc EXCEPT ![i] = "st_create"]
                    /\ UNCHANGED zk_cache
    /\ UNCHANGED <<connVars, lockSide, partyVars, retryVars, watchVars, sweepVars, now, entries, incoming, mpc, mop, mret,
                   current, todo, data, quiet>>

\* A store() that records a timestamp although its create met
\* NodeExistsError.
StoreCreate_push_on_exists(i) ==
    /\ wpc[i] = "st_create"
    /\ IF KazooDown(i)
       THEN /\ wpc' = [wpc EXCEPT ![i] = "idle"]
            /\ warg' = [warg EXCEPT ![i] = <<>>]
            /\ wret' = [wret EXCEPT ![i] = "ZkNoConnection"]
            /\ UNCHANGED <<zk_cache, quiet>>
       ELSE IF zk_cache[warg[i][1]] = Absent
       THEN /\ zk_cache' = [zk_cache EXCEPT ![warg[i][1]] = warg[i][2]]
            /\ quiet' = [j \in Inst |-> FALSE]
            /\ wpc' = [wpc EXCEPT ![i] = "st_push"]
            /\ UNCHANGED <<warg, wret>>
       ELSE /\ wpc' = [wpc EXCEPT ![i] = "st_push"]
            /\ UNCHANGED <<zk_cache, quiet, warg, wret>>
    /\ UNCHANGED <<connVars, lockSide, partyVars, retryVars, watchVars, sweepVars, now, entries, incoming, mpc, mop, mret,
                   current, todo, data, script>>

\* store: the node did not exist: self._kazoo.create(); NodeExistsError is
\* passed over.
StoreCreate(i) ==
    /\ wpc[i] = "st_create"
    /\ IF KazooDown(i)
       THEN /\ wpc' = [wpc EXCEPT ![i] = "idle"]
            /\ warg' = [warg EXCEPT ![i] = <<>>]
            /\ wret' = [wret EXCEPT ![i] = "ZkNoConnection"]
            /\ UNCHANGED <<zk_cache, quiet>>
       ELSE IF zk_cache[warg[i][1]] = Absent
       THEN /\ zk_cache' = [zk_cache EXCEPT ![warg[i][1]] = warg[i][2]]
            /\ quiet' = [j \in Inst |-> FALSE]
            /\ wpc' = [wpc EXCEPT ![i] = "st_push"]
            /\ UNCHANGED <<warg, wret>>
       ELSE /\ wpc' = [wpc EXCEPT ![i] = "idle"]
            /\ warg' = [warg EXCEPT ![i] = <<>>]
            /\ wret' = [wret EXCEPT ![i] = "returned"]
            /\ UNCHANGED <<zk_cache, quiet>>
    /\ UNCHANGED <<connVars, lockSide, partyVars, retryVars, watchVars, sweepVars, now, entries, incoming, mpc, mop, mret,
                   current, todo, data, script>>

\* A store() that records its timestamp in the timestamp map itself.
StorePush_into_map(i) ==
    /\ wpc[i] = "st_push"
    /\ entries' = [entries EXCEPT ![i] =
                      IF warg[i][1] \in DOMAIN @ THEN @
                      ELSE [n \in DOMAIN @ \cup {warg[i][1]} |->
                               IF n \in DOMAIN @ THEN @[n] ELSE now]]
    /\ wpc' = [wpc EXCEPT ![i] = "idle"]
    /\ warg' = [warg EXCEPT ![i] = <<>>]
    /\ wret' = [wret EXCEPT ![i] = "returned"]
    /\ UNCHANGED <<connVars, lockSide, partyVars, retryVars, watchVars, sweepVars, now, zk_cache, incoming, mpc, mop, mret,
                   current, todo, data, quiet, script>>

\* store: self._incoming_entries.append((name, SCIONTime.get_time())); return.
StorePush(i) ==
    /\ wpc[i] = "st_push"
    /\ incoming' = [incoming EXCEPT ![i] = Append(@, <<warg[i][1], now>>)]
    /\ wpc' = [wpc EXCEPT ![i] = "idle"]
    /\ warg' = [warg EXCEPT ![i] = <<>>]
    /\ wret' = [wret EXCEPT ![i] = "returned"]
    /\ UNCHANGED <<connVars, lockSide, partyVars, retryVars, watchVars, sweepVars, now, zk_cache, entries, mpc, mop, mret,
                   current, todo, data, quiet, script>>

\* A process() that empties the FIFO and records nothing of it.
ProcessStart_no_drain(i) ==
    /\ Started(i)
    /\ mpc[i] = "idle"
    /\ CanCall(i, <<"process">>)
    /\ script' = Called(i)
    /\ mop' = [mop EXCEPT ![i] = "process"]
    /\ IF ~is_connected(i)
       THEN /\ mret' = [mret EXCEPT ![i] = "ZkNoConnection"]
            /\ UNCHANGED <<entries, incoming, mpc>>
       ELSE /\ mret' = [mret EXCEPT ![i] = "none"]
            /\ entries' = [entries EXCEPT ![i] = @]
            /\ incoming' = [incoming EXCEPT ![i] = <<>>]
            /\ mpc' = [mpc EXCEPT ![i] = "pr_list"]
    /\ UNCHANGED <<connVars, lockSide, partyVars, retryVars, watchVars, sweepVars, now, zk_cache, wpc, warg, wret, current,
                   todo, data, quiet>>

\* process(): the connected check, then the FIFO is drained into the
\* timestamp map.
ProcessStart(i) ==
    /\ Started(i)
    /\ mpc[i] = "idle"
    /\ CanCall(i, <<"process">>)
    /\ script' = Called(i)
    /\ mop' = [mop EXCEPT ![i] = "process"]
    /\ IF ~is_connected(i)
       THEN /\ mret' = [mret EXCEPT ![i] = "ZkNoConnection"]
            /\ UNCHANGED <<entries, incoming, mpc>>
       ELSE /\ mret' = [mret EXCEPT ![i] = "none"]
            /\ entries' = [entries EXCEPT ![i] = drain(@, incoming[i])]
            /\ incoming' = [incoming EXCEPT ![i] = <<>>]
            /\ mpc' = [mpc EXCEPT ![i] = "pr_list"]
    /\ UNCHANGED <<connVars, lockSide, partyVars, retryVars, watchVars, sweepVars, now, zk_cache, wpc, warg, wret, current,
                   todo, data, quiet>>

\* A process() that lists the children and leaves the stale names in the
\* timestamp map.
ProcessList_keep_stale(i) ==
    /\ mpc[i] = "pr_list"
    /\ IF KazooDown(i)
       THEN /\ mpc' = [mpc EXCEPT ![i] = "idle"]
            /\ mret' = [mret EXCEPT ![i] = "ZkNoConnection"]
            /\ UNCHANGED <<entries, current, todo, data, quiet>>
       ELSE /\ current' = [current EXCEPT ![i] = Children]
            /\ entries' = [entries EXCEPT ![i] = @]
            /\ todo' = [todo EXCEPT ![i] = Children \ Keys(i)]
            /\ data' = [data EXCEPT ![i] = [n \in Names |-> Absent]]
            /\ quiet' = [quiet EXCEPT ![i] = TRUE]
            /\ mpc' = [mpc EXCEPT ![i] =
                    IF Children \ Keys(i) = {} THEN "pr_handle" ELSE "pr_get"]
            /\ UNCHANGED mret
    /\ UNCHANGED <<connVars, lockSide, partyVars, retryVars, watchVars, sweepVars, now, zk_cache, incoming, wpc, warg, wret,
                   mop, script>>

\* A process() that hands every child to _handle_entries, known or not.
ProcessList_refetch(i) ==
    /\ mpc[i] = "pr_list"
    /\ IF KazooDown(i)
       THEN /\ mpc' = [mpc EXCEPT ![i] = "idle"]
            /\ mret' = [mret EXCEPT ![i] = "ZkNoConnection"]
            /\ UNCHANGED <<entries, current, todo, data, quiet>>
       ELSE /\ current' = [current EXCEPT ![i] = Children]
            /\ entries' = [entries EXCEPT ![i] = Restrict(@, Children)]
            /\ todo' = [todo EXCEPT ![i] = Children]
            /\ data' = [data EXCEPT ![i] = [n \in Names |-> Absent]]
            /\ quiet' = [quiet EXCEPT ![i] = TRUE]
            /\ mpc' = [mpc EXCEPT ![i] =
                    IF Children = {} THEN "pr_handle" ELSE "pr_get"]
            /\ UNCHANGED mret
    /\ UNCHANGED <<connVars, lockSide, partyVars, retryVars, watchVars, sweepVars, now, zk_cache, incoming, wpc, warg, wret,
                   mop, script>>

\* process: previous = set(self._entries); current = _list_entries(); the
\* stale names are removed; _handle_entries starts on current - previous.
ProcessList(i) ==
    /\ mpc[i] = "pr_list"
    /\ IF KazooDown(i)
       THEN /\ mpc' = [mpc EXCEPT ![i] = "idle"]
            /\ mret' = [mret EXCEPT ![i] = "ZkNoConnection"]
            /\ UNCHANGED <<entries, current, todo, data, quiet>>
       ELSE /\ current' = [current EXCEPT ![i] = Children]
            /\ entries' = [entries EXCEPT ![i] = Restrict(@, Children)]
            /\ todo' = [todo EXCEPT ![i] = Children \ Keys(i)]
            /\ data' = [data EXCEPT ![i] = [n \in Names |-> Absent]]
            /\ quiet' = [quiet EXCEPT ![i] = TRUE]
            /\ mpc' = [mpc EXCEPT ![i] =
                    IF Children \ Keys(i) = {} THEN "pr_handle" ELSE "pr_get"]
            /\ UNCHANGED mret
    /\ UNCHANGED <<connVars, lockSide, partyVars, retryVars, watchVars, sweepVars, now, zk_cache, incoming, wpc, warg, wret,
                   mop, script>>

\* A _handle_entries that lets the ZkNoConnection of _get out of process()
\* and never calls the handler.
ProcessGet_raise(i) ==
    /\ mpc[i] = "pr_get"
    /\ \E name \in todo[i] :
          IF KazooDown(i)
          THEN /\ mpc' = [mpc EXCEPT ![i] = "idle"]
               /\ mret' = [mret EXCEPT ![i] = "ZkNoConnection"]
               /\ UNCHANGED <<entries, todo, data>>
          ELSE /\ todo' = [todo EXCEPT ![i] = @ \ {name}]
               /\ UNCHANGED mret
               /\ mpc' = [mpc EXCEPT ![i] =
                       IF todo[i] = {name} THEN "pr_handle" ELSE "pr_get"]
               /\ IF zk_cache[name] = Absent
                  THEN /\ entries' = [entries EXCEPT
                                         ![i] = Restrict(@, Names \ {name})]
                       /\ UNCHANGED data
                  ELSE /\ entries' = [entries EXCEPT
                                         ![i] = setdefault(@, name, now)]
                       /\ data' = [data EXCEPT ![i][name] = zk_cache[name]]
    /\ UNCHANGED <<connVars, lockSide, partyVars, retryVars, watchVars, sweepVars, now, zk_cache, incoming, wpc, warg, wret,
                   mop, current, quiet, script>>

\* _handle_entries: one turn of the loop, self._get(name): ZkNoConnection
\* ends the loop, ZkNoNodeError skips the name, a payload is appended and the
\* name gets a timestamp unless it has one.
ProcessGet(i) ==
    /\ mpc[i] = "pr_get"
    /\ \E name \in todo[i] :
          IF KazooDown(i)
          THEN /\ mpc' = [mpc EXCEPT ![i] = "pr_handle"]
               /\ UNCHANGED <<entries, todo, data>>
          ELSE /\ todo' = [todo EXCEPT ![i] = @ \ {name}]
               /\ mpc' = [mpc EXCEPT ![i] =
                       IF todo[i] = {name} THEN "pr_handle" ELSE "pr_get"]
               /\ IF zk_cache[name] = Absent
                  THEN /\ entries' = [entries EXCEPT
                                         ![i] = Restrict(@, Names \ {name})]
                       /\ UNCHANGED data
                  ELSE /\ entries' = [entries EXCEPT
                                         ![i] = setdefault(@, name, now)]
                       /\ data' = [data EXCEPT ![i][name] = zk_cache[name]]
    /\ UNCHANGED <<connVars, lockSide, partyVars, retryVars, watchVars, sweepVars, now, zk_cache, incoming, wpc, warg, wret,
                   mop, mret, current, quiet, script>>

\* _handle_entries: self._handler(data) is called with data[i]; process
\* returns and its locals are gone.
ProcessHandle(i) ==
    /\ mpc[i] = "pr_handle"
    /\ mpc' = [mpc EXCEPT ![i] = "idle"]
    /\ mret' = [mret EXCEPT ![i] = "returned"]
    /\ current' = [current EXCEPT ![i] = {}]
    /\ todo' = [todo EXCEPT ![i] = {}]
    /\ data' = [data EXCEPT ![i] = [n \in Names |-> Absent]]
    /\ quiet' = [quiet EXCEPT ![i] = TRUE]
    /\ UNCHANGED <<connVars, lockSide, partyVars, retryVars, watchVars, sweepVars, now, zk_cache, entries, incoming, wpc,
                   warg, wret, mop, script>>

\* An expire() that takes the age of an entry with the wrong sign.
ExpireStart_swapped(i, ttl) ==
    /\ Started(i)
    /\ mpc[i] = "idle"
    /\ CanCall(i, <<"expire", ttl>>)
    /\ script' = Called(i)
    /\ mop' = [mop EXCEPT ![i] = "expire"]
    /\ IF ~is_connected(i)
       THEN /\ mret' = [mret EXCEPT ![i] = "ZkNoConnection"]
            /\ UNCHANGED <<mpc, todo, sweepVars>>
       ELSE /\ mret' = [mret EXCEPT ![i] = "none"]
            /\ xnow' = [xnow EXCEPT ![i] = now]
            /\ xttl' = [xttl EXCEPT ![i] = ttl]
            /\ swept' = [swept EXCEPT ![i] = {}]
            /\ todo' = [todo EXCEPT ![i] =
                    {n \in Keys(i) : entries[i][n] - now > ttl}]
            /\ mpc' = [mpc EXCEPT ![i] = "ex_delete"]
    /\ UNCHANGED <<connVars, lockSide, partyVars, retryVars, watchVars, now, zk_cache, entries, incoming, wpc,
                   warg, wret, current, data, quiet>>

\* expire(ttl): the connected check and now = SCIONTime.get_time(); the
\* entries first seen more than ttl before now are the ones the loop
\* deletes.
ExpireStart(i, ttl) ==
    /\ Started(i)
    /\ mpc[i] = "idle"
    /\ CanCall(i, <<"expire", ttl>>)
    /\ script' = Called(i)
    /\ mop' = [mop EXCEPT ![i] = "expire"]
    /\ IF ~is_connected(i)
       THEN /\ mret' = [mret EXCEPT ![i] = "ZkNoConnection"]
            /\ UNCHANGED <<mpc, todo, sweepVars>>
       ELSE /\ mret' = [mret EXCEPT ![i] = "none"]
            /\ xnow' = [xnow EXCEPT ![i] = now]
            /\ xttl' = [xttl EXCEPT ![i] = ttl]
            /\ swept' = [swept EXCEPT ![i] = {}]
            /\ todo' = [todo EXCEPT ![i] =
                    {n \in Keys(i) : now - entries[i][n] > ttl}]
            /\ mpc' = [mpc EXCEPT ![i] = "ex_delete"]
    /\ UNCHANGED <<connVars, lockSide, partyVars, retryVars, watchVars, now, zk_cache, entries, incoming, wpc,
                   warg, wret, current, data, quiet>>

\* The locals of expire() are gone when it returns or raises.
ExpireOver(i) ==
    /\ xnow' = [xnow EXCEPT ![i] = 0]
    /\ xttl' = [xttl EXCEPT ![i] = 0]
    /\ swept' = [swept EXCEPT ![i] = {}]

\* An expire() that passes over an entry whose node is gone.
ExpireDelete_skip_missing(i) ==
    /\ mpc[i] = "ex_delete"
    /\ \E name \in todo[i] :
          IF KazooDown(i)
          THEN /\ mpc' = [mpc EXCEPT ![i] = "idle"]
               /\ mret' = [mret EXCEPT ![i] = "ZkNoConnection"]
               /\ todo' = [todo EXCEPT ![i] = {}]
               /\ ExpireOver(i)
               /\ UNCHANGED <<zk_cache, quiet>>
          ELSE IF zk_cache[name] = Absent
          THEN /\ todo' = [todo EXCEPT ![i] = @ \ {name}]
               /\ UNCHANGED <<zk_cache, quiet, mpc, mret, sweepVars>>
          ELSE /\ zk_cache' = [zk_cache EXCEPT ![name] = Absent]
               /\ quiet' = [j \in Inst |-> FALSE]
               /\ todo' = [todo EXCEPT ![i] = @ \ {name}]
               /\ swept' = [swept EXCEPT ![i] = @ \cup {name}]
               /\ UNCHANGED <<mpc, mret, xnow, xttl>>
    /\ UNCHANGED <<connVars, lockSide, partyVars, retryVars, watchVars, now, entries, incoming, wpc, warg, wret,
                   mop, current, data, script>>

\* expire: one self._kazoo.delete(); NoNodeError and connection errors end
\* the sweep with an exception.
ExpireDelete(i) ==
    /\ mpc[i] = "ex_delete"
    /\ \E name \in todo[i] :
          IF KazooDown(i)
          THEN /\ mpc' = [mpc EXCEPT ![i] = "idle"]
               /\ mret' = [mret EXCEPT ![i] = "ZkNoConnection"]
               /\ todo' = [todo EXCEPT ![i] = {}]
               /\ ExpireOver(i)
               /\ UNCHANGED <<zk_cache, quiet>>
          ELSE IF zk_cache[name] = Absent
          THEN /\ mpc' = [mpc EXCEPT ![i] = "idle"]
               /\ mret' = [mret EXCEPT ![i] = "ZkNoNodeError"]
               /\ todo' = [todo EXCEPT ![i] = {}]
               /\ ExpireOver(i)
               /\ UNCHANGED <<zk_cache, quiet>>
          ELSE /\ zk_cache' = [zk_cache EXCEPT ![name] = Absent]
               /\ quiet' = [j \in Inst |-> FALSE]
               /\ todo' = [todo EXCEPT ![i] = @ \ {name}]
               /\ swept' = [swept EXCEPT ![i] = @ \cup {name}]
               /\ UNCHANGED <<mpc, mret, xnow, xttl>>
    /\ UNCHANGED <<connVars, lockSide, partyVars, retryVars, watchVars, now, entries, incoming, wpc, warg, wret,
                   mop, current, data, script>>

\* expire: the loop is over; expire returns.
ExpireReturn(i) ==
    /\ mpc[i] = "ex_delete"
    /\ todo[i] = {}
    /\ mpc' = [mpc EXCEPT ![i] = "idle"]
    /\ mret' = [mret EXCEPT ![i] = "returned"]
    /\ ExpireOver(i)
    /\ UNCHANGED <<connVars, lockSide, partyVars, retryVars, watchVars, now, zk_cache, entries, incoming, wpc,
                   warg, wret, mop, current, todo, data, quiet, script>>

----------------------------------------------------------------------------
\* Zookeeper.party_setup and ZkParty.

\* party_setup raises ZkNoConnection and leaves the call.
PartySetupRaise(i) ==
    /\ ppc' = [ppc EXCEPT ![i] = "idle"]
    /\ pret' = [pret EXCEPT ![i] = "ZkNoConnection"]

\* A party_setup that goes on without looking at the connected event.
PartySetupStart_no_check(i, autojoin_) ==
    /\ Started(i)
    /\ ppc[i] = "idle"
    /\ pobj[i][1] < MaxParty
    /\ pret' = [pret EXCEPT ![i] = "none"]
    /\ ppc' = [ppc EXCEPT ![i] = "ps_ensure"]
    /\ pobj' = [pobj EXCEPT ![i] = <<@[1] + 1, autojoin_>>]
    /\ UNCHANGED <<connVars, lockSide, cacheVars, retryVars, watchVars, parties, party_nodes>>

\* party_setup(autojoin=autojoin_): the connected check; the party made by
\* this call is the next of the instance.
PartySetupStart(i, autojoin_) ==
    /\ Started(i)
    /\ ppc[i] = "idle"
    /\ pobj[i][1] < MaxParty
    /\ IF ~is_connected(i)
       THEN /\ pret' = [pret EXCEPT ![i] = "ZkNoConnection"]
            /\ UNCHANGED <<ppc, pobj>>
       ELSE /\ pret' = [pret EXCEPT ![i] = "none"]
            /\ ppc' = [ppc EXCEPT ![i] = "ps_ensure"]
            /\ pobj' = [pobj EXCEPT ![i] = <<@[1] + 1, autojoin_>>]
    /\ UNCHANGED <<connVars, lockSide, cacheVars, retryVars, watchVars, parties, party_nodes>>

\* party_setup: self.ensure_path(party_path, abs=True).
PartySetupEnsure(i) ==
    /\ ppc[i] = "ps_ensure"
    /\ IF KazooDown(i)
       THEN PartySetupRaise(i)
       ELSE /\ ppc' = [ppc EXCEPT ![i] = "ps_join"]
            /\ UNCHANGED pret
    /\ UNCHANGED <<connVars, lockSide, cacheVars, retryVars, watchVars, parties, party_nodes, pobj>>

\* ZkParty.__init__: zk.Party(path, id_), then autojoin(): join() if the
\* flag is set.
PartySetupJoin(i) ==
    /\ ppc[i] = "ps_join"
    /\ IF pobj[i][2] /\ KazooDown(i)
       THEN /\ PartySetupRaise(i)
            /\ UNCHANGED party_nodes
       ELSE /\ party_nodes' = party_nodes \cup
                                  (IF pobj[i][2] THEN {<<i, pobj[i][1]>>} ELSE {})
            /\ ppc' = [ppc EXCEPT ![i] = "ps_list"]
            /\ UNCHANGED pret
    /\ UNCHANGED <<connVars, lockSide, cacheVars, retryVars, watchVars, parties, pobj>>

\* ZkParty.autojoin: self.list(); then party_setup registers the party:
\* self._parties[party_path] = party.
PartySetupList(i) ==
    /\ ppc[i] = "ps_list"
    /\ IF KazooDown(i)
       THEN /\ PartySetupRaise(i)
            /\ UNCHANGED parties
       ELSE /\ parties' = [parties EXCEPT ![i] = pobj[i]]
            /\ ppc' = [ppc EXCEPT ![i] = "idle"]
            /\ pret' = [pret EXCEPT ![i] = "returned"]
    /\ UNCHANGED <<connVars, lockSide, cacheVars, retryVars, watchVars, party_nodes, pobj>>

\* One step of the thread of instance i that calls party_setup().
PartyStep(i) ==
    \/ \E autojoin_ \in BOOLEAN : PartySetupStart(i, autojoin_)
    \/ PartySetupEnsure(i)
    \/ PartySetupJoin(i)
    \/ PartySetupList(i)

----------------------------------------------------------------------------
\* retry(desc, f, _retries=R, _timeout=t): count = -1, and into the loop.
\* timed is FALSE for _timeout=None.
RetryStart(i, R, timed) ==
    /\ rpc[i] = "idle"
    /\ rpc' = [rpc EXCEPT ![i] = "loop"]
    /\ retries' = [retries EXCEPT ![i] = R]
    /\ timeout' = [timeout EXCEPT ![i] = timed]
    /\ count' = [count EXCEPT ![i] = -1]
    /\ attempts' = [attempts EXCEPT ![i] = 0]
    /\ execs' = [execs EXCEPT ![i] = 0]
    /\ fres' = [fres EXCEPT ![i] = "none"]
    /\ rret' = [rret EXCEPT ![i] = "none"]
    /\ UNCHANGED <<connVars, lockSide, cacheVars, partyVars, watchVars>>

\* A retry that gives up when count reaches _retries.
RetryLoop_at_limit(i) ==
    /\ rpc[i] = "loop"
    /\ count' = [count EXCEPT ![i] = @ + 1]
    /\ IF count'[i] >= retries[i]
       THEN /\ rpc' = [rpc EXCEPT ![i] = "idle"]
            /\ rret' = [rret EXCEPT ![i] = "ZkRetryLimit"]
       ELSE /\ rpc' = [rpc EXCEPT ![i] = "wait"]
            /\ UNCHANGED rret
    /\ UNCHANGED <<connVars, lockSide, cacheVars, partyVars, watchVars, retries, timeout,
                   attempts, execs, fres>>

\* retry, the head of the loop: count += 1, and with count > _retries the
\* loop is left and ZkRetryLimit raised.
RetryLoop(i) ==
    /\ rpc[i] = "loop"
    /\ count' = [count EXCEPT ![i] = @ + 1]
    /\ IF count'[i] > retries[i]
       THEN /\ rpc' = [rpc EXCEPT ![i] = "idle"]
            /\ rret' = [rret EXCEPT ![i] = "ZkRetryLimit"]
       ELSE /\ rpc' = [rpc EXCEPT ![i] = "wait"]
            /\ UNCHANGED rret
    /\ UNCHANGED <<connVars, lockSide, cacheVars, partyVars, watchVars, retries, timeout,
                   attempts, execs, fres>>

\* retry: wait_connected(timeout=_timeout) returns once connected is set;
\* while it is not set and a timeout was given, the timeout may run out:
\* ZkNoConnection, caught by retry, which goes on with the loop.
RetryWait(i) ==
    /\ rpc[i] = "wait"
    /\ connected[i] \/ timeout[i]
    /\ IF connected[i]
       THEN /\ rpc' = [rpc EXCEPT ![i] = "call"]
            /\ UNCHANGED attempts
       ELSE /\ rpc' = [rpc EXCEPT ![i] = "loop"]
            /\ attempts' = [attempts EXCEPT ![i] = @ + 1]
    /\ UNCHANGED <<connVars, lockSide, cacheVars, partyVars, watchVars, retries, timeout,
                   count, execs, fres, rret>>

\* retry: f(*args, **kwargs) returns res, which retry returns, or raises
\* ZkNoConnection, which retry catches to go on with the loop.
RetryCall(i, res) ==
    /\ rpc[i] = "call"
    /\ fres' = [fres EXCEPT ![i] = res]
    /\ attempts' = [attempts EXCEPT ![i] = @ + 1]
    /\ execs' = [execs EXCEPT ![i] = @ + 1]
    /\ IF res = "ZkNoConnection"
       THEN /\ rpc' = [rpc EXCEPT ![i] = "loop"]
            /\ UNCHANGED rret
       ELSE /\ rpc' = [rpc EXCEPT ![i] = "idle"]
            /\ rret' = [rret EXCEPT ![i] = res]
    /\ UNCHANGED <<connVars, lockSide, cacheVars, partyVars, watchVars, retries, timeout,
                   count>>

\* One step of the thread of instance i that calls retry().
RetryStep(i) ==
    \/ \E R \in 0..MaxRetries, timed \in BOOLEAN : RetryStart(i, R, timed)
    \/ RetryLoop(i)
    \/ RetryWait(i)
    \/ \E res \in Results \cup {"ZkNoConnection"} : RetryCall(i, res)

----------------------------------------------------------------------------
\* The values of ttl passed to expire.
TTLs == 0..MaxTime

\* One step of the thread of instance i that calls store().
WriterStep(i) ==
    \/ \E name \in Names, value \in Payloads : StoreSet(i, name, value)
    \/ StoreCreate(i)
    \/ StorePush(i)

\* One step of the thread of instance i that calls process() and expire().
MaintainerStep(i) ==
    \/ ProcessStart(i)
    \/ ProcessList(i)
    \/ ProcessGet(i)
    \/ ProcessHandle(i)
    \/ \E ttl \in TTLs : ExpireStart(i, ttl)
    \/ ExpireDelete(i)
    \/ ExpireReturn(i)

\* One step of a process() call of instance i.
ProcessStep(i) ==
    \/ ProcessStart(i)
    \/ ProcessList(i)
    \/ ProcessGet(i)
    \/ ProcessHandle(i)

\* One step of an expire() call of instance i.
ExpireStep(i) ==
    \/ \E ttl \in TTLs : ExpireStart(i, ttl)
    \/ ExpireDelete(i)
    \/ ExpireReturn(i)

\* One step of the connection of one instance.
ConnStep(i) ==
    \/ KazooConnected(i)
    \/ KazooSuspended(i)
    \/ SessionExpired(i)
    \/ KazooLost(i)
    \/ StateHandlerFlap(i)
    \/ StateHandlerSame(i)
    \/ StateHandlerDispatch(i)
    \/ _state_connected(i)

\* One step of one instance: of its transport, its state worker or its
\* application thread.
Step(i) ==
    \/ KazooConnected(i)
    \/ KazooSuspended(i)
    \/ SessionExpired(i)
    \/ KazooLost(i)
    \/ StateHandlerFlap(i)
    \/ StateHandlerSame(i)
    \/ StateHandlerDispatch(i)
    \/ _state_connected(i)
    \/ CallHaveLock(i)
    \/ HaveLock(i)
    \/ CallReleaseLock(i)
    \/ ReleaseLockClear(i)
    \/ ReleaseLockStore(i)
    \/ CallGetLock(i)
    \/ GetLockWaitConnected(i)
    \/ GetLockRecordEpoch(i)
    \/ AcquireContend(i)
    \/ GetLockAcquired(i)
    \/ GetLockTimeout(i)
    \/ GetLockNoConnection(i)

\* One instance alone.
Next == \E i \in {"A"} : Step(i)

Spec == Init /\ [][Next]_vars

\* Two instances contending for the same lock path.
NextPair == \E i \in Inst : Step(i)

SpecPair == Init /\ [][NextPair]_vars

\* A step of the connection of an instance that uses the shared cache.
CacheConnStep(i) == ConnStep(i) /\ conn_epoch'[i] <= CacheEpoch

\* The shared cache used by two instances: both store entries, the
\* instances of Maintainers run the periodic process() and expire().
Maintainers == {"A"}

NextCache ==
    \/ Tick
    \/ \E i \in Inst : CacheConnStep(i) \/ WriterStep(i)
    \/ \E i \in Maintainers : MaintainerStep(i)

SpecCache == Init /\ [][NextCache]_vars

\* The cache calls of the applications.
StoreCall(name, value) == <<"store", name, value>>
ProcessCall == <<"process">>
ExpireCall(ttl) == <<"expire", ttl>>

\* Round trip on one cache object: "A" stores one entry and then calls
\* process() twice; "B" reads the cache once.
InitRoundTrip ==
    /\ InitObjects
    /\ \E name \in Names, value \in Payloads :
          script = [i \in Inst |->
                       IF i = "A"
                       THEN <<StoreCall(name, value), ProcessCall, ProcessCall>>
                       ELSE <<ProcessCall>>]

NextRoundTrip ==
    \/ Tick
    \/ \E i \in Inst : CacheConnStep(i) \/ WriterStep(i) \/ ProcessStep(i)

SpecRoundTrip == InitRoundTrip /\ [][NextRoundTrip]_vars

\* Cache expiry on one cache object: "A" stores "p01" (the old entry) and
\* "p02" (the new one) and calls expire(3), with or without a process()
\* between the stores and the expire; the clock runs from 0 to ExpiryEnd.
InitExpiry ==
    /\ InitObjects
    /\ \E value \in Payloads, calls \in {<<>>, <<ProcessCall>>} :
          script = [i \in Inst |->
                       IF i = "A"
                       THEN <<StoreCall("p01", value), StoreCall("p02", value)>>
                                \o calls \o <<ExpireCall(3)>>
                       ELSE <<>>]

NextExpiry ==
    \/ TickTo(ExpiryEnd)
    \/ CacheConnStep("A")
    \/ WriterStep("A")
    \/ ProcessStart("A")
    \/ ProcessList("A")
    \/ ProcessHandle("A")
    \/ ExpireStart("A", 3)
    \/ ExpireDelete("A")
    \/ ExpireReturn("A")

SpecExpiry == InitExpiry /\ [][NextExpiry]_vars

\* Race on creation: both instances store the payload "x" under the name
\* "p01", which has no node yet.
InitRace ==
    /\ InitObjects
    /\ script = [i \in Inst |-> <<StoreCall("p01", "x")>>]

NextRace == \E i \in Inst : CacheConnStep(i) \/ WriterStep(i)

SpecRace == InitRace /\ [][NextRace]_vars

\* The shared cache with "A" as its only caller, whose threads make any
\* calls, and also the run in which "A" stores "x" and then "y" under the
\* name "p01" and then calls process().
InitFirstSeen ==
    /\ InitObjects
    /\ \/ script = [i \in Inst |-> IF i = "A" THEN <<AnyCall>> ELSE <<>>]
       \/ script = [i \in Inst |->
                        IF i = "A"
                        THEN <<StoreCall("p01", "x"), StoreCall("p01", "y"),
                               ProcessCall>>
                        ELSE <<>>]

SpecFirstSeen == InitFirstSeen /\ [][NextCache]_vars

\* ZkParty.list: the identifiers found under the party path.
Members == {m[1] : m \in party_nodes}

\* Objects made with both hooks, whose applications call party_setup at
\* any time and do not use the cache.
InitParty ==
    /\ InitState
    /\ on_hooks = [i \in Inst |-> TRUE]
    /\ script = [i \in Inst |-> <<>>]

NextParty == \E i \in Inst : ConnStep(i) \/ PartyStep(i)

SpecParty == InitParty /\ [][NextParty]_vars

\* One instance whose application calls retry, time after time, while
\* its connection comes and goes.
NextRetry == ConnStep("A") \/ RetryStep("A")

SpecRetry == Init /\ [][NextRetry]_vars

\* One instance made with both hooks, whose application uses the lock and
\* calls party_setup at any time.
NextHooked == Step("A") \/ PartyStep("A")

SpecHooked == InitParty /\ [][NextHooked]_vars

\* One instance with two application threads on its lock object: one makes
\* any calls, the other calls have_lock().
NextWatch == Step("A") \/ WatchStep("A")

SpecWatch == Init /\ [][NextWatch]_vars

\* The cache calls of the single-instance scenario.
SoloCalls == {StoreCall("p01", "x"), ProcessCall, ExpireCall(0)}

\* One instance: a thread makes any three cache calls, one after the
\* other, while another calls party_setup at any time.
InitSolo ==
    /\ InitObjects
    /\ \E c1, c2, c3 \in SoloCalls :
           script = [i \in Inst |-> IF i = "A" THEN <<c1, c2, c3>> ELSE <<>>]

\* No other instance stores, so process() finds no name to fetch.
NextSolo ==
    \/ Tick
    \/ CacheConnStep("A")
    \/ WriterStep("A")
    \/ ProcessStart("A")
    \/ ProcessList("A")
    \/ ProcessHandle("A")
    \/ ExpireStep("A")
    \/ PartyStep("A")

SpecSolo == InitSolo /\ [][NextSolo]_vars

\* The writers alone: every instance calls store() with any name and
\* payload while connections come and go; nothing drains the FIFOs.
NextStore ==
    \/ Tick
    \/ \E i \in Inst : CacheConnStep(i) \/ WriterStep(i)

SpecStore == Init /\ [][NextStore]_vars

\* Fetching while entries go: "B" stores two entries, records them and
\* sweeps them with ttl 0; "A" calls process() twice on the same path
\* while its connection comes and goes.
InitFetch ==
    /\ InitObjects
    /\ script = [i \in Inst |->
                     IF i = "A"
                     THEN <<ProcessCall, ProcessCall>>
                     ELSE <<StoreCall("p01", "x"), StoreCall("p02", "y"),
                            ProcessCall, ExpireCall(0)>>]

NextFetch ==
    \/ Tick
    \/ \E i \in Inst : \/ CacheConnStep(i)
                       \/ WriterStep(i)
                       \/ ProcessStep(i)
                       \/ ExpireStep(i)

SpecFetch == InitFetch /\ [][NextFetch]_vars

\* Sweeping what another instance has swept: "B" stores "p01", records it
\* and sweeps with ttl 0; "A" stores "p02", records the children and
\* sweeps twice with ttl 0, with or without a process() in between.
InitSweep ==
    /\ InitObjects
    /\ \E between \in {<<>>, <<ProcessCall>>} :
           script = [i \in Inst |->
                        IF i = "A"
                        THEN <<StoreCall("p02", "y"), ProcessCall, ExpireCall(0)>>
                                 \o between \o <<ExpireCall(0)>>
                        ELSE <<StoreCall("p01", "x"), ProcessCall, ExpireCall(0)>>]

\* The calls of expire(0) the application of i has yet to make.
SweepsLeft(i) == Len(SelectSeq(script[i], LAMBDA c : c = ExpireCall(0)))

\* The clock of the sweep scenario advances once, when "A" has recorded
\* the children and before its first sweep.
SweepTick ==
    /\ SweepsLeft("A") = 2
    /\ Head(script["A"]) = ExpireCall(0)
    /\ mpc["A"] = "idle"
    /\ Tick

NextSweep ==
    \/ SweepTick
    \/ \E i \in Inst : \/ CacheConnStep(i)
                       \/ WriterStep(i)
                       \/ ProcessStep(i)
                       \/ ExpireStep(i)

SpecSweep == InitSweep /\ [][NextSweep]_vars

\* Sweeping twice: "A" alone stores two entries, records them and calls
\* expire(0) twice in a row, while its connection comes and goes; the
\* clock advances once, before the first sweep.
InitTwice ==
    /\ InitObjects
    /\ script = [i \in Inst |->
                     IF i = "A"
                     THEN <<StoreCall("p01", "x"), StoreCall("p02", "y"),
                            ProcessCall, ExpireCall(0), ExpireCall(0)>>
                     ELSE <<>>]

\* Every name process() lists is in the timestamp map already, so it
\* fetches nothing.
NextTwice ==
    \/ SweepTick
    \/ CacheConnStep("A")
    \/ WriterStep("A")
    \/ ProcessStart("A")
    \/ ProcessList("A")
    \/ ProcessHandle("A")
    \/ ExpireStep("A")

SpecTwice == InitTwice /\ [][NextTwice]_vars

\* Cache insert and discovery: "A" stores "x" as "p01" and "y" as "p02";
\* "B", on the same path, calls process() twice.
InitDiscovery ==
    /\ InitObjects
    /\ script = [i \in Inst |->
                     IF i = "A"
                     THEN <<StoreCall("p01", "x"), StoreCall("p02", "y")>>
                     ELSE <<ProcessCall, ProcessCall>>]

NextDiscovery ==
    \/ Tick
    \/ \E i \in Inst : CacheConnStep(i) \/ WriterStep(i) \/ ProcessStep(i)

SpecDiscovery == InitDiscovery /\ [][NextDiscovery]_vars

\* Reading what is overwritten: "A" stores "x" and then "y" as "p01", and
\* "x" as "p02"; "B", on the same path, calls process() three times.
InitAgain ==
    /\ InitObjects
    /\ script = [i \in Inst |->
                     IF i = "A"
                     THEN <<StoreCall("p01", "x"), StoreCall("p01", "y"),
                            StoreCall("p02", "x")>>
                     ELSE <<ProcessCall, ProcessCall, ProcessCall>>]

SpecAgain == InitAgain /\ [][NextDiscovery]_vars

\* The steps an application thread takes inside a call it has made.
ThreadRun(i) ==
    \/ HaveLock(i)
    \/ ReleaseLockClear(i)
    \/ ReleaseLockStore(i)
    \/ GetLockWaitConnected(i)
    \/ GetLockRecordEpoch(i)
    \/ AcquireContend(i)
    \/ GetLockAcquired(i)
    \/ GetLockTimeout(i)
    \/ GetLockNoConnection(i)

\* The steps of the state worker.
WorkerRun(i) ==
    \/ StateHandlerFlap(i)
    \/ StateHandlerSame(i)
    \/ StateHandlerDispatch(i)
    \/ _state_connected(i)

\* Two instances whose threads keep running: a call in progress and the
\* state worker are not starved.
SpecPairFair ==
    /\ SpecPair
    /\ \A i \in Inst : WF_vars(ThreadRun(i)) /\ WF_vars(WorkerRun(i))

\* The instances of SpecParty with the worker's update of old_state and the
\* handler it then calls as steps of their own.
NextWorker ==
    \E i \in Inst :
        \/ KazooConnected(i)
        \/ KazooSuspended(i)
        \/ SessionExpired(i)
        \/ KazooLost(i)
        \/ StateHandlerFlap(i)
        \/ StateHandlerSame(i)
        \/ StateHandlerAssign(i)
        \/ _state_connected(i)
        \/ StateDisconnected(i)
        \/ PartyStep(i)

SpecWorker == InitParty /\ [][NextWorker]_vars

\* The instances of SpecParty with state workers that keep running.
SpecPartyFair ==
    /\ SpecParty
    /\ \A i \in Inst : WF_vars(WorkerRun(i))

----------------------------------------------------------------------------
\* Properties of the lock.

\* The application thread of i takes a step out of label l.
Leaves(i, l) == pc[i] = l /\ pc'[i] # l

\* The transport delivers a state to the listener of i.
Delivered(i) == Len(state_events'[i]) > Len(state_events[i])

\* C1: have_lock() returns True only if, at its evaluation, connected is
\* set, the acquired bit is set and the recorded epoch is the current one;
\* if any of the three fails it goes through release_lock, which leaves the
\* acquired bit clear, and returns False.
C1_HaveLockContract ==
    [][\A i \in Inst :
        /\ Leaves(i, "have_lock") =>
              IF connected[i] /\ lock[i] /\ lock_epoch[i] = conn_epoch[i]
              THEN pc'[i] = "idle" /\ ret'[i] = "true" /\ lock'[i]
              ELSE pc'[i] = "rl_clear"
        /\ ( /\ pc[i] \in {"rl_clear", "rl_release"}
             /\ callsite[i] = "have_lock"
             /\ pc'[i] = "idle" ) => ret'[i] = "false" /\ ~lock'[i]
        /\ ( /\ pc[i] \in {"rl_clear", "rl_release"}
             /\ callsite[i] = "have_lock" ) =>
                pc'[i] \in {"rl_clear", "rl_release", "idle"}
      ]_vars

\* C1 witness: have_lock() has just returned False on an instance that is
\* connected and had acquired the lock in an earlier epoch.
C1_Witness ==
    /\ pc["A"] = "idle" /\ callsite["A"] = "have_lock" /\ ret["A"] = "false"
    /\ connected["A"] /\ zk_lock["A"]
    /\ lock_epoch["A"] > 0 /\ lock_epoch["A"] < conn_epoch["A"]

\* C2: split-brain safety: there is no state in which have_lock() would
\* return True on two instances; in particular once the store has let the
\* peer acquire after the holder's transport reported SUSPENDED, the
\* holder's have_lock() is False.
C2_NoSplitBrain ==
    \A i, j \in Inst : i # j => ~(have_lock_cond(i) /\ have_lock_cond(j))

\* C2 witness: A acquired, its transport reported SUSPENDED and its worker
\* has not yet cleared connected; the store expired A's session and B holds
\* the lock.
C2_Witness ==
    /\ have_lock_cond("B")
    /\ lock["A"] /\ connected["A"] /\ kstate["A"] = SUSPENDED

\* C3: every state change delivered by the transport makes have_lock()
\* False, also a SUSPENDED/CONNECTED flap on a live session, and the epoch
\* mismatch lasts until get_lock records the epoch again; the acquired bit
\* is clear then and is set again only by a successful store acquisition.
C3_StateChangeInvalidates ==
    /\ [](\A i \in Inst :
            pc[i] \in {"gl_wait", "gl_record", "gl_acquire"} => ~lock[i])
    /\ [][\A i \in Inst :
            /\ Delivered(i) => ~have_lock_cond(i)'
            /\ ( /\ lock_epoch[i] # conn_epoch[i]
                 /\ lock_epoch'[i] = conn_epoch'[i] ) =>
                    pc[i] = "gl_record" /\ pc'[i] = "gl_acquire"
            /\ (~lock[i] /\ lock'[i]) => pc[i] = "gl_acquire" /\ Granted(i)
          ]_vars

\* C3 witness: after a SUSPENDED/CONNECTED flap on the same session the
\* instance is connected again, still has the acquired bit set and is still
\* the first contender in the store, and have_lock() would return False.
C3_Witness ==
    /\ lock["A"] /\ connected["A"] /\ kstate["A"] = CONNECTED
    /\ state_events["A"] = <<>>
    /\ contenders # <<>> /\ Head(contenders) = "A"
    /\ conn_epoch["A"] = lock_epoch["A"] + 2
    /\ ~have_lock_cond("A")

\* get_lock has returned True on i.
GotLock(i) ==
    pc[i] = "idle" /\ callsite[i] \in {"gl_entry", "gl_exit"} /\ ret[i] = "true"

\* The connection of p is up and its worker has handled every state.
SteadyConnected(p) ==
    kstate[p] = CONNECTED /\ state_events[p] = <<>> /\ connected[p]

\* C4: two clients, one lock: once the store has dropped the session of an
\* instance (and with it its contender node), have_lock() is False on it;
\* and when that instance is A, a get_lock that the connected peer B is
\* running then returns True, unless A contends again first or B's own
\* transport goes down.
C4_PeerAcquiresAfterLost ==
    /\ [](\A h \in Inst : ~session[h] => ~have_lock_cond(h))
    /\ ( /\ ~session["A"] /\ ~InSeq(contenders, "A")
         /\ pc["B"] = "gl_wait" /\ SteadyConnected("B") )
       ~> ( \/ GotLock("B")
            \/ InSeq(contenders, "A")
            \/ kstate["B"] # CONNECTED )

\* C4 witness: A held the lock and lost its session (its acquired bit is
\* still set), and B's get_lock has returned True.
C4_Witness ==
    /\ kstate["A"] = LOST /\ lock["A"] /\ ~have_lock_cond("A")
    /\ GotLock("B") /\ have_lock_cond("B")

\* The labels inside release_lock.
InRelease == {"rl_clear", "rl_release"}

\* C5 as stated: whenever the store-side acquisition inside get_lock
\* succeeds, get_lock sets the acquired bit and returns True.
C5_AcquiredReturnsTrue ==
    [][\A i \in Inst :
        /\ (Leaves(i, "gl_acquire") /\ Granted(i)) =>
                lock'[i] /\ pc'[i] = "have_lock"
        /\ ( /\ Leaves(i, "have_lock")
             /\ callsite[i] = "gl_exit" /\ lock[i] ) =>
                pc'[i] = "idle" /\ ret'[i] = "true"
      ]_vars

\* C5 amended: whenever the store-side acquisition inside get_lock
\* succeeds, get_lock sets the acquired bit; it then returns True if its
\* final have_lock() finds connected set and the epoch recorded before the
\* acquisition still current, and otherwise goes through release_lock and
\* returns False.
C5_AcquiredThenFinalCheck ==
    [][\A i \in Inst :
        /\ (Leaves(i, "gl_acquire") /\ Granted(i)) =>
                lock'[i] /\ pc'[i] = "have_lock"
        /\ ( /\ Leaves(i, "have_lock")
             /\ callsite[i] = "gl_exit" /\ lock[i] ) =>
                IF connected[i] /\ lock_epoch[i] = conn_epoch[i]
                THEN pc'[i] = "idle" /\ ret'[i] = "true"
                ELSE pc'[i] = "rl_clear"
        /\ ( /\ pc[i] \in InRelease /\ callsite[i] = "gl_exit"
             /\ pc'[i] \notin InRelease ) =>
                pc'[i] = "idle" /\ ret'[i] = "false" /\ ~lock'[i]
      ]_vars

\* C5 witness: the store granted the lock and the acquired bit was set, but
\* the final have_lock() failed; the instance is still the first contender.
C5_Witness ==
    /\ pc["A"] = "rl_clear" /\ callsite["A"] = "gl_exit" /\ lock["A"]
    /\ Granted("A")

\* C6: if the lock is already held when get_lock is called, it returns
\* True at once: no wait for the connection, no new lock epoch, no store
\* acquisition.
C6_AlreadyHeldReturnsTrue ==
    [][\A i \in Inst :
        /\ ( /\ Leaves(i, "have_lock") /\ callsite[i] = "gl_entry"
             /\ connected[i] /\ lock[i] /\ lock_epoch[i] = conn_epoch[i] ) =>
                /\ pc'[i] = "idle" /\ ret'[i] = "true"
                /\ lock_epoch'[i] = lock_epoch[i]
                /\ contenders' = contenders
                /\ lock'[i] /\ is_acquired'[i] = is_acquired[i]
        /\ (pc[i] = "idle" /\ pc'[i] = "gl_wait") => ~have_lock_cond(i)
      ]_vars

\* C6 witness: get_lock has returned True from its entry check.
C6_Witness ==
    /\ pc["A"] = "idle" /\ callsite["A"] = "gl_entry" /\ ret["A"] = "true"
    /\ have_lock_cond("A")

\* C7: a get_lock that does not obtain the lock ends in a defined failure
\* with the acquired bit clear: ZkNoConnection when connected is not set
\* within conn_timeout (nothing was done at the store yet) or when the
\* connection is lost during the acquisition, False when lock_timeout
\* expires.
C7_GetLockFailure ==
    /\ [](\A i \in Inst :
            (pc[i] = "idle" /\ callsite[i] \in {"gl_entry", "gl_exit"}) =>
                /\ ret[i] \in {"true", "false", "ZkNoConnection"}
                /\ ret[i] # "true" => ~lock[i])
    /\ [][\A i \in Inst :
            /\ Leaves(i, "gl_wait") =>
                  IF connected[i]
                  THEN pc'[i] = "gl_record"
                  ELSE /\ pc'[i] = "idle" /\ ret'[i] = "ZkNoConnection"
                       /\ contenders' = contenders
            /\ (Leaves(i, "gl_acquire") /\ pc'[i] = "idle") =>
                  ret'[i] = "ZkNoConnection" /\ kstate[i] # CONNECTED
            /\ (Leaves(i, "gl_acquire") /\ Blocked(i) /\ pc'[i] # "idle") =>
                  pc'[i] = "have_lock" /\ ~lock'[i]
            /\ ( /\ Leaves(i, "have_lock") /\ callsite[i] = "gl_exit"
                 /\ ~lock[i] ) => pc'[i] = "rl_clear"
            /\ ( /\ pc[i] \in InRelease /\ callsite[i] = "gl_exit"
                 /\ pc'[i] \notin InRelease ) =>
                  pc'[i] = "idle" /\ ret'[i] = "false"
          ]_vars

\* C7 witness: B's get_lock has returned False after waiting behind the
\* holder A.
C7_Witness ==
    /\ pc["B"] = "idle" /\ callsite["B"] = "gl_exit" /\ ret["B"] = "false"
    /\ have_lock_cond("A") /\ Head(contenders) = "A"

\* C8: release_lock first clears the acquired bit, releases against the
\* store only if connected is set, and always returns normally.
C8_ReleaseLock ==
    /\ [](\A i \in Inst : callsite[i] = "release_lock" => ret[i] = "none")
    /\ [][\A i \in Inst :
            /\ Leaves(i, "rl_clear") =>
                  /\ ~lock'[i] /\ contenders' = contenders
                  /\ zk_lock[i] => pc'[i] = "rl_release"
            /\ Leaves(i, "rl_release") =>
                  /\ ~lock[i] /\ ~lock'[i] /\ ~is_acquired'[i]
                  /\ ~connected[i] => contenders' = contenders
                  /\ contenders' \in {contenders, Without(contenders, i)}
            /\ ( /\ pc[i] \in InRelease /\ callsite[i] = "release_lock"
                 /\ pc'[i] \notin InRelease ) => pc'[i] = "idle"
          ]_vars

\* C8 witness: release_lock has returned while connected was clear; the
\* acquired bit is clear and the own contender node is still in the store.
C8_Witness ==
    /\ pc["A"] = "idle" /\ callsite["A"] = "release_lock"
    /\ ~connected["A"] /\ ~lock["A"] /\ ~is_acquired["A"]
    /\ InSeq(contenders, "A")

\* C9: the connection epoch starts at 0 and grows by exactly one with every
\* state the transport delivers, whatever the worker does with that state;
\* nothing else changes it.
C9_EpochCountsTransitions ==
    /\ \A i \in Inst : conn_epoch[i] = 0
    /\ [][\A i \in Inst :
            conn_epoch'[i] =
                conn_epoch[i] + (IF kstate'[i] # kstate[i] THEN 1 ELSE 0)
          ]_vars

\* C9 witness: two states were delivered, the worker dropped the first
\* (old_state is still "startup") and has not handled the second.
C9_Witness ==
    /\ conn_epoch["A"] = 2 /\ old_state["A"] = "startup"
    /\ state_events["A"] = <<SUSPENDED>>

\* C10 as stated: whenever process() returns normally on a cache whose
\* children were the same set C from the listing to the return, the key
\* set of the timestamp map equals C.
C10_KeysEqualChildren ==
    [][\A i \in Inst :
          (ProcessHandle(i) /\ quiet[i]) =>
              DOMAIN entries'[i] = Children]_vars

\* C10: whenever process() returns normally on a cache whose children were
\* the same set C from the listing to the return, the key set of the
\* timestamp map equals C without the names whose fetch was given up after
\* a ZkNoConnection; it equals C when no fetch was given up.
C10_KeysEqualChildrenFetched ==
    [][\A i \in Inst :
          (ProcessHandle(i) /\ quiet[i]) =>
              /\ Children = current[i]
              /\ DOMAIN entries'[i] = Children \ todo[i]]_vars

\* process() is about to return after it removed nothing it should keep:
\* both names are children, one was already known and one was fetched in
\* this pass, and the key set is the set of children.
C10_Witness ==
    /\ mpc["A"] = "pr_handle"
    /\ quiet["A"]
    /\ todo["A"] = {}
    /\ Children = Names
    /\ Keys("A") = Names
    /\ \E n \in Names : data["A"][n] # Absent
    /\ \E n \in Names : data["A"][n] = Absent

\* The batch _handle_entries passes to the handler of i holds no payload.
EmptyBatch(i) == \A n \in Names : data[i][n] = Absent

\* C11 as stated: after store(n, v) returned normally for a fresh name n,
\* each of the two process() calls on the same cache object hands the
\* handler a batch: the first holds exactly one payload, v, and the second
\* holds none.
C11_RoundTripDelivers ==
    [][(ProcessHandle("A") /\ wret["A"] = "returned") =>
          IF Len(script["A"]) = 1
          THEN Cardinality(Children) = 1 /\ data["A"] = zk_cache
          ELSE EmptyBatch("A")]_vars

\* C11: after store(n, v) returned normally for a fresh name n, a
\* process() on the same cache object and a second process() after it each
\* hand the handler an empty batch, and n is a key of the timestamp map.
C11_RoundTripOwnEntrySkipped ==
    [][(ProcessHandle("A") /\ wret["A"] = "returned") =>
          /\ EmptyBatch("A")
          /\ Children = Keys("A")
          /\ Cardinality(Children) = 1]_vars

\* The first process() after the store is about to call the handler: the
\* stored name is the only child and the only key, and the batch is empty.
C11_Witness ==
    /\ mpc["A"] = "pr_handle"
    /\ Len(script["A"]) = 1
    /\ wret["A"] = "returned"
    /\ Cardinality(Children) = 1
    /\ Keys("A") = Children
    /\ EmptyBatch("A")

\* C12 as stated: when expire(t), called at time T, returns normally, every
\* key k of the timestamp map has T - first_seen(k) <= t.
C12_AllKeysYoung ==
    [][\A i \in Inst :
          ExpireReturn(i) =>
              \A k \in DOMAIN entries'[i] :
                  xnow[i] - entries'[i][k] <= xttl[i]]_vars

\* C12: when expire(t), called at time T, returns normally, every key k of
\* the timestamp map whose node this sweep did not delete has
\* T - first_seen(k) <= t.
C12_UnsweptKeysYoung ==
    [][\A i \in Inst :
          ExpireReturn(i) =>
              \A k \in (DOMAIN entries'[i]) \ swept[i] :
                  xnow[i] - entries'[i][k] <= xttl[i]]_vars

\* expire() is about to return normally after it deleted the node of one
\* key and spared another.
C12_Witness ==
    /\ mpc["A"] = "ex_delete"
    /\ todo["A"] = {}
    /\ swept["A"] # {}
    /\ Keys("A") \ swept["A"] # {}

\* The cache object of i holds t as the time of the store of name n: in
\* its timestamp map, or else in a record of its FIFO.
StoredAt(i, n, t) ==
    IF n \in Keys(i) THEN entries[i][n] = t
    ELSE \E k \in 1..Len(incoming[i]) : incoming[i][k] = <<n, t>>

\* C13 as stated: the writer stored "p01" at 0 and "p02" at 5; its
\* expire(3), called at 6 on the same cache object, returns with the node
\* of "p01" deleted and the node of "p02" kept.
C13_ExpiryScenario ==
    [][(/\ ExpireReturn("A")
        /\ xnow["A"] = 6 /\ xttl["A"] = 3
        /\ StoredAt("A", "p01", 0) /\ StoredAt("A", "p02", 5)) =>
           zk_cache'["p01"] = Absent /\ zk_cache'["p02"] # Absent]_vars

\* C13: the writer stored "p01" at 0 and "p02" at 5 and its process() has
\* taken both into the timestamp map; its expire(3), called at 6 on the same
\* cache object, returns with the node of "p01" deleted and the node of
\* "p02" kept.
C13_ExpiryScenarioAfterProcess ==
    [][(/\ ExpireReturn("A")
        /\ xnow["A"] = 6 /\ xttl["A"] = 3
        /\ Keys("A") = {"p01", "p02"}
        /\ StoredAt("A", "p01", 0) /\ StoredAt("A", "p02", 5)) =>
           /\ swept["A"] = {"p01"}
           /\ zk_cache'["p01"] = Absent /\ zk_cache'["p02"] # Absent]_vars

\* expire(3), called at 6 after a process(), is about to return: it has
\* deleted "p01", first seen at 0, and kept "p02", first seen at 5.
C13_Witness ==
    /\ mpc["A"] = "ex_delete"
    /\ todo["A"] = {}
    /\ xnow["A"] = 6 /\ xttl["A"] = 3
    /\ Keys("A") = {"p01", "p02"}
    /\ entries["A"]["p01"] = 0 /\ entries["A"]["p02"] = 5
    /\ swept["A"] = {"p01"}
    /\ zk_cache["p01"] = Absent /\ zk_cache["p02"] # Absent

\* Every instance has made its one store() call and the call returned
\* normally.
BothStored ==
    \A i \in Inst : script[i] = <<>> /\ wpc[i] = "idle" /\ wret[i] = "returned"

\* The instances whose FIFO holds a record.
Pushers == {i \in Inst : incoming[i] # <<>>}

\* The two store() calls are in progress at the same time.
Overlap == \A i \in Inst : wpc[i] # "idle"

\* The writers whose set or create has succeeded: they push a record next,
\* or have pushed one.
Recorders == {i \in Inst : wpc[i] = "st_push" \/ incoming[i] # <<>>}

\* C14 as stated: once both store("p01", "x") calls have returned normally,
\* "p01" is the only node and its payload is "x"; and while the two calls
\* overlap, at most one writer, the one whose create succeeded, gets to
\* push a record.
C14_OnlyCreatorPushed ==
    /\ BothStored => Children = {"p01"} /\ zk_cache["p01"] = "x"
    /\ Overlap => Cardinality(Recorders) <= 1

\* C14: once both store("p01", x) calls have returned normally, "p01" is
\* the only node, its payload is "x", and one writer or both have pushed
\* exactly one record each; a writer whose create meets
\* NodeExists returns normally, pushes nothing and leaves the node alone.
C14_CreateRace ==
    /\ [](BothStored =>
            /\ Children = {"p01"}
            /\ zk_cache["p01"] = "x"
            /\ Pushers # {}
            /\ \A i \in Pushers : Len(incoming[i]) = 1
                                   /\ incoming[i][1][1] = "p01")
    /\ [][\A i \in Inst :
            (StoreCreate(i) /\ ~KazooDown(i) /\ zk_cache["p01"] # Absent) =>
                /\ wret'[i] = "returned"
                /\ wpc'[i] = "idle"
                /\ incoming'[i] = <<>>
                /\ zk_cache' = zk_cache]_vars

\* Both calls have returned normally and "B" lost the race at create: only
\* "A" holds a record.
C14_Witness ==
    /\ BothStored
    /\ Pushers = {"A"}
    /\ Children = {"p01"}

\* C15: a step of any thread leaves the timestamp of every name that is in
\* the timestamp map before and after it as it was; and when process()
\* drains a FIFO holding the records of store("p01", "x") and then
\* store("p01", "y"), the timestamp of "p01" becomes the time of the first
\* store while the payload in the store is "y".
C15_FirstSeenWins ==
    /\ [][\A i \in Inst :
            \A n \in (DOMAIN entries[i]) \cap (DOMAIN entries'[i]) :
                entries'[i][n] = entries[i][n]]_vars
    /\ [][(/\ ProcessStart("A")
           /\ script["A"] = <<ProcessCall>>
           /\ Len(incoming["A"]) = 2
           /\ is_connected("A")) =>
              /\ entries'["A"]["p01"] = incoming["A"][1][2]
              /\ zk_cache["p01"] = "y"]_vars

\* process() has drained the records of the two stores of "p01", the
\* second made at a later time than the first: the timestamp is the time
\* of the first store and the payload is the second.
C15_Witness ==
    /\ script["A"] = <<>>
    /\ mpc["A"] = "pr_list"
    /\ wret["A"] = "returned"
    /\ now = 1
    /\ "p01" \in Keys("A")
    /\ entries["A"]["p01"] = 0
    /\ zk_cache["p01"] = "y"

\* C16: when the first process() of "B" has listed both entries stored by
\* "A" and fetched each, the batch it hands the handler holds exactly the
\* stored payloads, "x" and "y"; and when the second process() of "B"
\* lists the children with both names in its timestamp map, it fetches
\* nothing and goes on to hand the handler an empty batch.
C16_Discovery ==
    /\ [][(/\ ProcessHandle("B")
           /\ Len(script["B"]) = 1
           /\ current["B"] = Names
           /\ todo["B"] = {}) =>
              /\ data["B"] = zk_cache
              /\ data["B"]["p01"] = "x" /\ data["B"]["p02"] = "y"
              /\ DOMAIN entries'["B"] = Names]_vars
    /\ [][(/\ ProcessList("B")
           /\ script["B"] = <<>>
           /\ ~KazooDown("B")
           /\ Keys("B") = Names) =>
              /\ mpc'["B"] = "pr_handle"
              /\ \A n \in Names : data'["B"][n] = Absent]_vars

\* The first process() of the reader is about to hand the handler the two
\* payloads the writer stored.
C16_Witness ==
    /\ mpc["B"] = "pr_handle"
    /\ Len(script["B"]) = 1
    /\ script["A"] = <<>>
    /\ data["B"]["p01"] = "x"
    /\ data["B"]["p02"] = "y"

\* The second process() of the reader is about to hand the handler an empty
\* batch, with both names in its timestamp map.
C16_SecondPassEmpty ==
    /\ mpc["B"] = "pr_handle"
    /\ script["B"] = <<>>
    /\ Keys("B") = Names
    /\ EmptyBatch("B")

\* The set() of a store() call of i succeeds in this step.
SetSucceeds(i) ==
    \E n \in Names, v \in Payloads :
        /\ StoreSet(i, n, v)
        /\ is_connected(i)
        /\ ~KazooDown(i)
        /\ zk_cache[n] # Absent

\* The create() of a store() call of i succeeds in this step.
CreateSucceeds(i) ==
    /\ StoreCreate(i)
    /\ ~KazooDown(i)
    /\ zk_cache[warg[i][1]] = Absent

\* C17: a store() call comes to its append exactly when its set or its
\* create succeeded, and the append pushes the one record (name, now) and
\* returns; a FIFO grows in no other way; a create that meets NodeExists
\* returns normally, leaves the payload alone and pushes nothing; a set or
\* a create that meets a connection loss or a session expiry raises
\* ZkNoConnection and pushes nothing.
C17_StorePushes ==
    /\ [][\A i \in Inst :
            (wpc[i] # "st_push" /\ wpc'[i] = "st_push") <=>
                (SetSucceeds(i) \/ CreateSucceeds(i))]_vars
    /\ [][\A i \in Inst :
            (wpc[i] = "st_push" /\ wpc'[i] # "st_push") =>
                /\ incoming'[i] = Append(incoming[i], <<warg[i][1], now>>)
                /\ wpc'[i] = "idle"
                /\ wret'[i] = "returned"]_vars
    /\ [][\A i \in Inst :
            Len(incoming'[i]) > Len(incoming[i]) => wpc[i] = "st_push"]_vars
    /\ [][\A i \in Inst :
            (StoreCreate(i) /\ ~KazooDown(i) /\ zk_cache[warg[i][1]] # Absent) =>
                /\ wret'[i] = "returned"
                /\ wpc'[i] = "idle"
                /\ zk_cache' = zk_cache
                /\ incoming' = incoming]_vars
    /\ [][\A i \in Inst :
            (/\ KazooDown(i)
             /\ \/ StoreCreate(i)
                \/ \E n \in Names, v \in Payloads : StoreSet(i, n, v)) =>
                /\ wret'[i] = "ZkNoConnection"
                /\ wpc'[i] = "idle"
                /\ incoming' = incoming]_vars

\* One writer has pushed a record made at time 1 and the other has
\* returned normally from a store() that pushed nothing.
C17_Witness ==
    \E i, j \in Inst :
        /\ wret[i] = "returned" /\ wpc[i] = "idle" /\ incoming[i] = <<>>
        /\ Len(incoming[j]) = 1 /\ incoming[j][1][2] = 1
        /\ wret[j] = "returned"

\* A store() of "A" has raised ZkNoConnection from its set or its create,
\* made while the connected condition was still set, and pushed nothing.
C17_LossDuringStore ==
    /\ wret["A"] = "ZkNoConnection"
    /\ is_connected("A")
    /\ kstate["A"] # CONNECTED
    /\ incoming["A"] = <<>>
    /\ Children = {}

\* A store() call of i starts in this step.
StoreStarts(i) == \E n \in Names, v \in Payloads : StoreSet(i, n, v)

\* A process() or an expire() call of i starts in this step.
MaintenanceStarts(i) ==
    ProcessStart(i) \/ \E ttl \in TTLs : ExpireStart(i, ttl)

\* A party_setup() call of i starts in this step.
PartySetupStarts(i) == \E autojoin_ \in BOOLEAN : PartySetupStart(i, autojoin_)

\* C18: a store(), process(), expire() or party_setup() that starts while
\* the connected condition is clear raises ZkNoConnection at once, its
\* thread out of the call: the cache path, the party path, the FIFO, the
\* timestamp map and the registered parties are as they were.
C18_NoConnectionFirst ==
    [][\A i \in Inst :
          /\ (StoreStarts(i) /\ ~is_connected(i)) =>
                 wret'[i] = "ZkNoConnection" /\ wpc'[i] = "idle"
          /\ (MaintenanceStarts(i) /\ ~is_connected(i)) =>
                 mret'[i] = "ZkNoConnection" /\ mpc'[i] = "idle"
          /\ (PartySetupStarts(i) /\ ~is_connected(i)) =>
                 pret'[i] = "ZkNoConnection" /\ ppc'[i] = "idle"
          /\ (/\ StoreStarts(i) \/ MaintenanceStarts(i) \/ PartySetupStarts(i)
              /\ ~is_connected(i)) =>
                 /\ zk_cache' = zk_cache
                 /\ party_nodes' = party_nodes
                 /\ incoming' = incoming
                 /\ entries' = entries
                 /\ parties' = parties]_vars

\* With a name in the timestamp map and a party registered and joined,
\* the connected condition is clear, and the expire() and the
\* party_setup() made since have raised ZkNoConnection.
C18_Witness ==
    /\ ~is_connected("A")
    /\ Keys("A") # {}
    /\ parties["A"] # NoParty
    /\ party_nodes # {}
    /\ script["A"] = <<>>
    /\ mret["A"] = "ZkNoConnection" /\ mop["A"] = "expire"
    /\ pret["A"] = "ZkNoConnection"

\* Instance i is inside _handle_entries: in the loop or at the handler call.
Fetching(i) == mpc[i] \in {"pr_get", "pr_handle"}

\* The names whose payload _handle_entries of i has in its batch.
Fetched(i) == {n \in Names : data[i][n] # Absent}

\* C19: a process() that has listed the children leaves only through the
\* one handler call and returns normally; the batch holds the payloads
\* fetched so far, each of a name that is in the timestamp map, and the
\* names still to fetch are not in the map. A connection loss at a fetch
\* ends the loop with the batch, the map and the names to fetch as they
\* were; a fetch that finds no node drops the name from the names to
\* fetch, leaves it out of the map and adds no payload; a fetch that finds
\* the node adds its payload and has the name in the map.
C19_HandleEntries ==
    /\ [](\A i \in Inst :
            Fetching(i) =>
                /\ Fetched(i) \subseteq Keys(i)
                /\ todo[i] \cap Keys(i) = {}
                /\ mpc[i] = "pr_get" => todo[i] # {})
    /\ [][\A i \in Inst :
            (mpc[i] = "pr_list" /\ mpc'[i] # "pr_list" /\ ~KazooDown(i)) =>
                Fetching(i)']_vars
    /\ [][\A i \in Inst :
            (Fetching(i) /\ ~Fetching(i)') =>
                /\ ProcessHandle(i)
                /\ mret'[i] = "returned"]_vars
    /\ [][\A i \in Inst :
            (ProcessGet(i) /\ KazooDown(i)) =>
                /\ mpc'[i] = "pr_handle"
                /\ mret'[i] = "none"
                /\ UNCHANGED <<entries, data, todo>>]_vars
    /\ [][\A i \in Inst : \A n \in Names :
            (ProcessGet(i) /\ ~KazooDown(i) /\ n \in todo[i] \ todo'[i]) =>
                /\ Fetching(i)'
                /\ IF zk_cache[n] = Absent
                   THEN n \notin DOMAIN entries'[i] /\ data' = data
                   ELSE /\ n \in DOMAIN entries'[i]
                        /\ data'[i] = [data[i] EXCEPT ![n] = zk_cache[n]]]_vars

\* "A" listed both entries, fetched "x" of "p01" and found no node for
\* "p02": the handler is about to get the batch holding "x" alone, and
\* "p02" is not in the timestamp map.
C19_Witness ==
    /\ mpc["A"] = "pr_handle"
    /\ current["A"] = Names
    /\ todo["A"] = {}
    /\ data["A"]["p01"] = "x"
    /\ data["A"]["p02"] = Absent
    /\ Keys("A") = {"p01"}

\* "A" fetched one payload and lost its connection at the next fetch: the
\* handler is about to get the one payload, and the other name is still
\* to fetch and not in the timestamp map.
C19_Aborted ==
    /\ mpc["A"] = "pr_handle"
    /\ kstate["A"] # CONNECTED
    /\ Cardinality(Fetched("A")) = 1
    /\ Cardinality(todo["A"]) = 1
    /\ todo["A"] \cap Keys("A") = {}

\* The entries the running expire() of i selected: first seen more than
\* ttl before its now.
Selected(i) == {n \in Keys(i) : xnow[i] - entries[i][n] > xttl[i]}

\* An expire() of i ends in this step on an exception.
SweepRaises(i) ==
    ExpireDelete(i) /\ mret'[i] \in {"ZkNoNodeError", "ZkNoConnection"}

\* How expire() meets a missing node and a connection loss: a delete made
\* while the transport is down raises ZkNoConnection; with the transport
\* up, expire raises ZkNoNodeError only at a selected entry whose node is
\* gone, and does so when every entry left has none; either way the
\* call is over, and the store and the timestamp map are as they were.
SweepStops ==
    [][\A i \in Inst :
          /\ (ExpireDelete(i) /\ KazooDown(i)) => mret'[i] = "ZkNoConnection"
          /\ (ExpireDelete(i) /\ mret'[i] = "ZkNoNodeError") =>
                 /\ ~KazooDown(i)
                 /\ \E n \in todo[i] : zk_cache[n] = Absent
          /\ (/\ ExpireDelete(i)
              /\ ~KazooDown(i)
              /\ \A n \in todo[i] : zk_cache[n] = Absent) =>
                 mret'[i] = "ZkNoNodeError"
          /\ SweepRaises(i) =>
                 /\ mpc'[i] = "idle"
                 /\ zk_cache' = zk_cache
                 /\ entries' = entries]_vars

\* "A" has made its two sweeps, both at time 1 and with its connection
\* up since it stored "p02", and recorded both entries at time 0.
TwoSweepsDone ==
    /\ script["A"] = <<>>
    /\ mpc["A"] = "idle"
    /\ mop["A"] = "expire"
    /\ conn_epoch["A"] = 1
    /\ now = 1
    /\ Keys("A") = Names
    /\ \A n \in Names : entries["A"][n] = 0

\* C20 as stated: expire raises ZkNoNodeError at a tracked entry whose
\* node is gone and ZkNoConnection at a connection loss, the sweep stops
\* there, and the expired entries it left are deleted by a later sweep:
\* once "A" has made its second sweep, no expired entry has a node.
C20_LaterSweepDeletes ==
    /\ SweepStops
    /\ [](TwoSweepsDone => \A n \in Names : zk_cache[n] = Absent)

\* C20: expire raises ZkNoNodeError at a tracked entry whose node is gone
\* and ZkNoConnection at a connection loss; the sweep stops there and the
\* expired entries it left are not deleted by it and stay in the
\* timestamp map; a later sweep that returns normally has itself deleted
\* the node of every entry it selected.
C20_SweepStopsAtFailure ==
    /\ SweepStops
    /\ [][\A i \in Inst : ExpireReturn(i) => Selected(i) \subseteq swept[i]]_vars

\* After a first sweep of "A" that left "p02", a process() dropped "p01"
\* from the timestamp map, and the second sweep has deleted "p02" and is
\* about to return.
C20_Witness ==
    /\ script["A"] = <<>>
    /\ mpc["A"] = "ex_delete"
    /\ todo["A"] = {}
    /\ conn_epoch["A"] = 1
    /\ now = 1
    /\ Keys("A") = {"p02"}
    /\ swept["A"] = {"p02"}
    /\ wret["B"] = "returned"

\* The second sweep of "A" has raised ZkNoNodeError like the first, and
\* "p02" still has its node.
C20_SecondSweepRaised ==
    /\ TwoSweepsDone
    /\ mret["A"] = "ZkNoNodeError"
    /\ zk_cache["p02"] = "y"

\* C21: while process() is in _handle_entries and when it returns, every
\* name in the timestamp map is in the listing of that pass; and the step
\* that lists the children drops from the map every name that is in it and
\* not in the listing.
C21_KeysWithinListing ==
    /\ [](\A i \in Inst : Fetching(i) => Keys(i) \subseteq current[i])
    /\ [][\A i \in Inst :
            ProcessHandle(i) =>
                /\ mret'[i] = "returned"
                /\ DOMAIN entries'[i] \subseteq current[i]]_vars
    /\ [][\A i \in Inst :
            (ProcessList(i) /\ ~KazooDown(i)) =>
                /\ current'[i] = Children
                /\ DOMAIN entries'[i] = Keys(i) \cap Children]_vars

\* The second process() of "A" is about to return with "p02" alone in the
\* timestamp map: it fetched nothing, and its listing dropped "p01", at
\* which the first sweep of "A" had stopped.
C21_Witness ==
    /\ script["A"] = <<ExpireCall(0)>>
    /\ mpc["A"] = "pr_handle"
    /\ conn_epoch["A"] = 1
    /\ now = 1
    /\ Keys("A") = {"p02"}
    /\ entries["A"]["p02"] = 0
    /\ current["A"] = {"p02"}
    /\ EmptyBatch("A")
    /\ "p01" \in Keys("B")

----------------------------------------------------------------------------
\* Properties of the parties and of the state worker.

\* Instance i has a party registered whose autojoin flag is set.
AutojoinParty(i) == parties[i] # NoParty /\ parties[i][2]

\* The node of the party registered by i.
PartyNode(i) == <<i, parties[i][1]>>

\* The state worker of i takes a CONNECTED off the queue in this step.
DequeuesConnected(i) ==
    /\ state_events[i] # <<>>
    /\ Head(state_events[i]) = CONNECTED
    /\ state_events'[i] = Tail(state_events[i])

\* C22 as stated: with an autojoin party registered, every CONNECTED the
\* transport delivered takes the worker into _state_connected, where the
\* party joins again.
C22_EveryConnectedRejoins ==
    [][\A i \in Inst :
          (DequeuesConnected(i) /\ AutojoinParty(i)) =>
              hpc'[i] = "connected"]_vars

\* C22: with an autojoin party registered, every CONNECTED that the worker
\* takes off the queue with no later state queued behind it takes the
\* worker into _state_connected, and there, unless the transport is down
\* by then, the party joins: its node is under the party path.
C22_HandledConnectedRejoins ==
    /\ [][\A i \in Inst :
            (DequeuesConnected(i) /\ Tail(state_events[i]) = <<>>) =>
                hpc'[i] = "connected"]_vars
    /\ [][\A i \in Inst :
            (/\ _state_connected(i)
             /\ hpc[i] = "connected"
             /\ kstate[i] = CONNECTED
             /\ AutojoinParty(i)) =>
                PartyNode(i) \in party_nodes']_vars

\* After a lost session and a new connection, the worker of "A" has made
\* the registered party join again and is about to list its members.
C22_Witness ==
    /\ conn_epoch["A"] = 4
    /\ kstate["A"] = CONNECTED
    /\ hpc["A"] = "autojoin"
    /\ ppc["A"] = "idle"
    /\ AutojoinParty("A")
    /\ PartyNode("A") \in party_nodes

\* The connection of i is up and at rest: the transport is connected, the
\* worker has handled every state and set the connected event.
Settled(i) ==
    /\ kstate[i] = CONNECTED
    /\ state_events[i] = <<>>
    /\ hpc[i] = "get"
    /\ connected[i]

\* C23 as stated: whenever the connection of an instance with a registered
\* autojoin party is up and at rest, however many CONNECTED transitions
\* came before, the members listed under the party path hold the
\* identifier of the instance, as one member.
C23_MemberOnce ==
    \A i \in Inst :
        (Settled(i) /\ AutojoinParty(i)) =>
            /\ i \in Members
            /\ Cardinality({m \in party_nodes : m = PartyNode(i)}) = 1

\* C24: a retry with _retries = R makes at most R+1 attempts, an attempt
\* being a wait for connected that timed out or an execution of f; it
\* returns what f returned at the first execution that did not raise
\* ZkNoConnection, and raises ZkRetryLimit after exactly R+1 attempts, all
\* of them failed.
C24_RetryBudget ==
    /\ [](\A i \in Inst :
            /\ attempts[i] <= retries[i] + 1
            /\ execs[i] <= attempts[i]
            /\ rret[i] = "ZkRetryLimit" =>
                    /\ attempts[i] = retries[i] + 1
                    /\ fres[i] \in {"none", "ZkNoConnection"}
            /\ rret[i] \in Results => rret[i] = fres[i])
    /\ [][\A i \in Inst :
            /\ execs'[i] = execs[i] + 1 =>
                    IF fres'[i] = "ZkNoConnection"
                    THEN rpc'[i] = "loop" /\ rret'[i] = "none"
                    ELSE rpc'[i] = "idle" /\ rret'[i] = fres'[i]
            /\ (rpc[i] = "loop" /\ rret'[i] = "ZkRetryLimit") =>
                    attempts[i] = retries[i] + 1]_vars

\* retry with _retries = 2 has raised ZkRetryLimit after three executions
\* of f, each of which raised ZkNoConnection.
C24_Witness ==
    /\ rpc["A"] = "idle"
    /\ rret["A"] = "ZkRetryLimit"
    /\ retries["A"] = 2
    /\ execs["A"] = 3
    /\ attempts["A"] = 3

\* A step in which the listener of i hands a state to the worker.
Enqueues(i) == Len(state_events'[i]) > Len(state_events[i])

\* C25 as stated: the epoch counter and the connected event change only in
\* steps of the state worker, and a step of the listener changes nothing
\* but the queue (and the transport's own state).
C25_OnlyWorkerMutates ==
    /\ [][\A i \in Inst :
            (conn_epoch'[i] # conn_epoch[i] \/ connected'[i] # connected[i])
                => WorkerRun(i)]_vars
    /\ [][\A i \in Inst :
            Enqueues(i) => UNCHANGED <<conn_epoch, connected>>]_vars

\* C25, amended: the connected event changes only in steps of the state
\* worker; the epoch counter changes only in the listener, which adds one
\* to it, puts the state it was given on the queue, and changes nothing
\* else of the object.
C25_WorkerSetsConnected ==
    /\ [][\A i \in Inst :
            connected'[i] # connected[i] => WorkerRun(i)]_vars
    /\ [][\A i \in Inst :
            conn_epoch'[i] # conn_epoch[i] => Enqueues(i)]_vars
    /\ [][\A i \in Inst :
            Enqueues(i) =>
                /\ conn_epoch'[i] = conn_epoch[i] + 1
                /\ state_events'[i] = Append(state_events[i], kstate'[i])
                /\ UNCHANGED <<contenders, workerVars, lockVars, threadVars,
                               cacheVars, partyVars, retryVars>>]_vars

\* The listener of "A" has counted a SUSPENDED that the worker has not yet
\* taken from the queue: the epoch is ahead, the event still set, while the
\* application holds the lock.
C25_Witness ==
    /\ conn_epoch["A"] = 2
    /\ state_events["A"] = <<SUSPENDED>>
    /\ connected["A"]
    /\ is_acquired["A"]

\* C26: every have_lock() that returns True, made while the listener, the
\* state worker and another application thread run, saw a consistent
\* triple: at some instant during the call connected and the acquired bit
\* were set and the lock epoch was the connection epoch.
C26_ConsistentTriple ==
    \A i \in Inst : oret[i] = "true" => seen[i]

\* The state worker of i takes the state s off the queue in this step.
Dequeues(i, s) ==
    /\ state_events[i] # <<>>
    /\ Head(state_events[i]) = s
    /\ state_events'[i] = Tail(state_events[i])

\* The step leaves old_state, the connected event, the parties and the
\* hooks of i alone, and the worker stays in the loop of _state_handler.
Dropped(i) ==
    /\ old_state'[i] = old_state[i]
    /\ connected'[i] = connected[i]
    /\ hook_log'[i] = hook_log[i]
    /\ hpc'[i] = "get"
    /\ UNCHANGED <<parties, party_nodes>>

\* The step runs _state_suspended or _state_lost for i: the connected event
\* is cleared and on_disconnect invoked, once.
Disconnects(i) ==
    /\ ~connected'[i]
    /\ hook_log'[i] = Append(hook_log[i], "on_disconnect")
    /\ hpc'[i] = "get"

\* C27: a CONNECTED dequeued while the queue still holds a later state is
\* dropped: old_state stays, connected is not set, neither autojoin nor the
\* on_connect hook runs. A SUSPENDED or LOST is not dropped for the queue
\* holding a later state: unless it equals old_state it is handled.
C27_Debounce ==
    /\ [][\A i \in Inst :
            (Dequeues(i, CONNECTED) /\ Tail(state_events[i]) # <<>>) =>
                Dropped(i)]_vars
    /\ [][\A i \in Inst : \A s \in {SUSPENDED, LOST} :
            (Dequeues(i, s) /\ s # old_state[i]) =>
                old_state'[i] = s /\ Disconnects(i)]_vars

\* "A" has handled SUSPENDED, then dropped the CONNECTED behind which a
\* second SUSPENDED was queued: that one is the next to come.
C27_Witness ==
    /\ conn_epoch["A"] = 4
    /\ hpc["A"] = "get"
    /\ old_state["A"] = SUSPENDED
    /\ state_events["A"] = <<SUSPENDED>>
    /\ AutojoinParty("A")

\* C28: a dequeued state equal to old_state is dropped: old_state, the
\* connected event and the parties stay and no hook is invoked. Any other
\* state that the de-bounce lets through becomes old_state before it is
\* dispatched: _state_connected runs with old_state CONNECTED, and
\* _state_suspended and _state_lost with old_state the state handled.
C28_SameStateDropped ==
    /\ [][\A i \in Inst : \A s \in {CONNECTED, SUSPENDED, LOST} :
            (Dequeues(i, s) /\ s = old_state[i]) => Dropped(i)]_vars
    /\ [][\A i \in Inst : \A s \in {CONNECTED, SUSPENDED, LOST} :
            (/\ Dequeues(i, s)
             /\ s # old_state[i]
             /\ ~(s = CONNECTED /\ Tail(state_events[i]) # <<>>)) =>
                /\ old_state'[i] = s
                /\ IF s = CONNECTED THEN hpc'[i] = "connected"
                   ELSE Disconnects(i)]_vars
    /\ [](\A i \in Inst : hpc[i] # "get" => old_state[i] = CONNECTED)
    /\ [](\A i \in Inst : conn_epoch[i] = 0 => old_state[i] = "startup")

\* After CONNECTED, SUSPENDED, CONNECTED, SUSPENDED the hooks of "A" have
\* run once each: the second CONNECTED was dropped by the de-bounce and
\* the second SUSPENDED as equal to old_state.
C28_Witness ==
    /\ conn_epoch["A"] = 4
    /\ kstate["A"] = SUSPENDED
    /\ state_events["A"] = <<>>
    /\ hpc["A"] = "get"
    /\ old_state["A"] = SUSPENDED
    /\ hook_log["A"] = <<"on_connect", "on_disconnect">>

\* The step sets the connected event of i.
SetsConnected(i) == connected'[i] /\ ~connected[i]

\* C29: on a handled CONNECTED the worker ensures the prefix path, runs
\* autojoin for every party of its snapshot of the registry, sets the
\* connected event and invokes on_connect, in this order.  So the event is
\* set only by _state_connected, after requests that did not raise
\* ZkNoConnection: ensure_path, and, for a party registered when the
\* snapshot was taken, the join and the list() of its autojoin, made
\* while this CONNECTED was handled; on_connect is invoked in the step
\* that sets the event and in no other.
C29_ConnectedOrder ==
    /\ [][\A i \in Inst :
            SetsConnected(i) =>
                /\ _state_connected(i)
                /\ kstate[i] = CONNECTED
                /\ old_state[i] = CONNECTED
                /\ parties[i] # NoParty => hpc[i] = "autojoin"]_vars
    /\ [][\A i \in Inst :
            (hpc'[i] = "autojoin" /\ hpc[i] # "autojoin") =>
                /\ hpc[i] = "connected"
                /\ kstate[i] = CONNECTED
                /\ ~connected[i] /\ ~connected'[i]
                /\ parties[i] # NoParty
                /\ AutojoinParty(i) => PartyNode(i) \in party_nodes']_vars
    /\ [][\A i \in Inst :
            hook_log'[i] # hook_log[i] =>
                IF SetsConnected(i)
                THEN hook_log'[i] = Append(hook_log[i], "on_connect")
                ELSE Disconnects(i)]_vars
    /\ [](\A i \in Inst : hpc[i] = "autojoin" => parties[i] # NoParty)

\* After a SUSPENDED, the worker of "A" has handled the next CONNECTED:
\* the registered party has joined, the event is set and on_connect has
\* been invoked a second time.
C29_Witness ==
    /\ hook_log["A"] = <<"on_connect", "on_disconnect", "on_connect">>
    /\ hpc["A"] = "get"
    /\ connected["A"]
    /\ AutojoinParty("A")
    /\ PartyNode("A") \in party_nodes

\* C30: on a handled SUSPENDED or LOST the worker clears the connected
\* event and invokes on_disconnect, once; the Kazoo lock's is_acquired,
\* the acquired bit, the lock epoch and the registered parties stay as they
\* are.
C30_DisconnectFrame ==
    [][\A i \in Inst : \A s \in {SUSPENDED, LOST} :
        (Dequeues(i, s) /\ s # old_state[i]) =>
            /\ Disconnects(i)
            /\ UNCHANGED <<zk_lock, is_acquired, lock, lock_epoch>>
            /\ UNCHANGED <<parties, party_nodes>>]_vars

\* The worker of "A" has handled LOST while the application held the lock
\* and had an autojoin party registered: the event is clear, on_disconnect
\* was the last hook, and the acquired bit and the lock epoch are those of
\* the first connection.
C30_Witness ==
    /\ old_state["A"] = LOST
    /\ ~connected["A"]
    /\ hook_log["A"] = <<"on_connect", "on_disconnect", "on_disconnect">>
    /\ lock["A"]
    /\ is_acquired["A"]
    /\ lock_epoch["A"] = 1
    /\ AutojoinParty("A")

\* C31: the worker takes the states off the queue in the order in which the
\* listener put them there: the listener adds the state the transport has
\* entered at the tail, the worker takes the head, and nothing else changes
\* the queue. The hooks and the autojoin run in steps of the worker: the
\* step of the listener leaves the hooks' record, the party nodes and the
\* worker where they are.
C31_QueueOrder ==
    /\ [][\A i \in Inst :
            state_events'[i] # state_events[i] =>
                \/ /\ state_events'[i] = Append(state_events[i], kstate'[i])
                   /\ kstate'[i] # kstate[i]
                   /\ UNCHANGED <<hook_log, party_nodes, hpc, old_state>>
                \/ /\ WorkerRun(i)
                   /\ hpc[i] = "get"
                   /\ state_events'[i] = Tail(state_events[i])
                   /\ old_state'[i] \in {old_state[i], Head(state_events[i])}]_vars
    /\ [][\A i \in Inst :
            (hook_log'[i] # hook_log[i] \/ hpc'[i] # hpc[i]) =>
                WorkerRun(i)]_vars

\* The worker of "A" found CONNECTED, SUSPENDED and LOST queued: it has
\* dropped the first and handled the next two, in this order.
C31_Witness ==
    /\ conn_epoch["A"] = 3
    /\ state_events["A"] = <<>>
    /\ old_state["A"] = LOST
    /\ hook_log["A"] = <<"on_disconnect", "on_disconnect">>

\* C32: store() leaves the timestamp map alone: of the cache object it
\* changes the FIFO only, by appending one record of the name stored. The
\* timestamp map changes in steps of process() and expire() only.
C32_StoreFrame ==
    /\ [][\A i \in Inst :
            WriterStep(i) =>
                /\ entries' = entries
                /\ UNCHANGED <<current, todo, data, mpc, mop, mret>>
                /\ \/ incoming' = incoming
                   \/ /\ wpc[i] = "st_push"
                      /\ incoming'[i] = Append(incoming[i], <<warg[i][1], now>>)]_vars
    /\ [][\A i \in Inst :
            entries'[i] # entries[i] => ProcessStep(i) \/ ExpireStep(i)]_vars
    /\ [][\A i \in Inst :
            incoming'[i] # incoming[i] => WriterStep(i) \/ ProcessStep(i)]_vars

\* "B" has stored its two entries: two records wait in its FIFO and its
\* timestamp map is still empty.
C32_Witness ==
    /\ Len(incoming["B"]) = 2
    /\ wpc["B"] = "idle"
    /\ wret["B"] = "returned"
    /\ entries["B"] = EmptyMap

\* C33: when the last state the transport delivers is CONNECTED (from then
\* on the store requests of the worker succeed) and the worker keeps
\* running, the connected event is set in the end and stays set. A CONNECTED
\* that is the newest state delivered is never discarded when it is
\* dequeued: neither by the de-bounce nor as equal to old_state.
C33_ConnectedInTheEnd ==
    /\ \A i \in Inst : <>[](kstate[i] = CONNECTED) => <>[]connected[i]
    /\ [][\A i \in Inst :
            (/\ Dequeues(i, CONNECTED)
             /\ Tail(state_events[i]) = <<>>
             /\ kstate[i] = CONNECTED) =>
                /\ old_state[i] # CONNECTED
                /\ old_state'[i] = CONNECTED
                /\ hpc'[i] = "connected"]_vars

\* The transport of "A" has delivered its last state, CONNECTED, after a
\* lost session; the worker has handled it and set the event.
C33_Witness ==
    /\ conn_epoch["A"] = MaxEpoch
    /\ kstate["A"] = CONNECTED
    /\ state_events["A"] = <<>>
    /\ hpc["A"] = "get"
    /\ old_state["A"] = CONNECTED
    /\ connected["A"]

\* C34: when a store request of _state_connected raises ZkNoConnection,
\* the worker returns with the connected event clear and on_connect not
\* invoked, old_state being CONNECTED already. The event is set inside
\* _state_connected only, which is entered only for a dequeued CONNECTED
\* with old_state not CONNECTED (one dequeued with old_state CONNECTED is
\* dropped), and old_state leaves CONNECTED only when a SUSPENDED or LOST
\* is handled: so after the failure the event is set only after a handled
\* SUSPENDED or LOST and another handled CONNECTED.
C34_FailedDispatch ==
    /\ [][\A i \in Inst :
            (_state_connected(i) /\ kstate[i] # CONNECTED) =>
                /\ ~connected[i] /\ ~connected'[i]
                /\ hook_log'[i] = hook_log[i]
                /\ old_state[i] = CONNECTED /\ old_state'[i] = CONNECTED
                /\ hpc'[i] = "get"]_vars
    /\ [][\A i \in Inst : SetsConnected(i) => hpc[i] # "get"]_vars
    /\ [][\A i \in Inst :
            (hpc[i] = "get" /\ hpc'[i] # "get") =>
                Dequeues(i, CONNECTED) /\ old_state[i] # CONNECTED]_vars
    /\ [][\A i \in Inst :
            (Dequeues(i, CONNECTED) /\ old_state[i] = CONNECTED) =>
                Dropped(i)]_vars
    /\ [][\A i \in Inst :
            (old_state[i] = CONNECTED /\ old_state'[i] # CONNECTED) =>
                /\ Dequeues(i, old_state'[i])
                /\ old_state'[i] \in {SUSPENDED, LOST}
                /\ Disconnects(i)]_vars

\* The worker of "A" was in the autojoin of its party for a CONNECTED when
\* the connection went down: it is back in its loop with old_state
\* CONNECTED, the event clear and on_connect not invoked a second time.
C34_Witness ==
    /\ hpc["A"] = "get"
    /\ old_state["A"] = CONNECTED
    /\ ~connected["A"]
    /\ state_events["A"] = <<SUSPENDED>>
    /\ hook_log["A"] = <<"on_connect", "on_disconnect">>
    /\ AutojoinParty("A")

\* C35: get_lock returns True only from a have_lock() that found the
\* connected event set, the acquired bit set and the epoch recorded by
\* get_lock equal to the current epoch. When the final have_lock() of
\* get_lock finds the epoch moved on, it runs release_lock, and get_lock
\* returns False with the acquired bit and is_acquired cleared, also when
\* acquire() had succeeded.
C35_FinalCheck ==
    /\ [][\A i \in Inst :
            (ret'[i] = "true" /\ ret[i] # "true") =>
                /\ pc[i] = "have_lock"
                /\ pc'[i] = "idle"
                /\ connected[i]
                /\ lock[i]
                /\ lock_epoch[i] = conn_epoch[i]]_vars
    /\ [][\A i \in Inst :
            (/\ pc[i] = "have_lock"
             /\ callsite[i] = "gl_exit"
             /\ lock_epoch[i] # conn_epoch[i]) =>
                (pc'[i] # pc[i] => pc'[i] = "rl_clear" /\ ret'[i] = "none")]_vars
    /\ [][\A i \in Inst :
            (/\ pc[i] \in {"rl_clear", "rl_release"}
             /\ callsite[i] = "gl_exit"
             /\ pc'[i] = "idle") =>
                /\ ret'[i] = "false"
                /\ ~lock'[i]
                /\ ~is_acquired'[i]]_vars

\* The final have_lock() of the get_lock of "A" has failed and entered
\* release_lock: acquire() had succeeded, the connection is up and the
\* event set, but the transport has reported changes since the epoch was
\* recorded.
C35_Witness ==
    /\ pc["A"] = "rl_clear"
    /\ callsite["A"] = "gl_exit"
    /\ connected["A"]
    /\ kstate["A"] = CONNECTED
    /\ lock["A"]
    /\ is_acquired["A"]
    /\ contenders = <<"A">>
    /\ lock_epoch["A"] = 1
    /\ conn_epoch["A"] = 3

\* An earlier sweep of "A" has deleted the node of a name that is still in
\* the timestamp map (in the scenario nothing else deletes a node).
EarlierSweepDeleted ==
    \E n \in Keys("A") : zk_cache[n] = Absent /\ n \notin swept["A"]

\* The step ends the second expire(0) of "A": at its connected check, or
\* in its loop.
SecondSweepEnds ==
    \/ /\ script["A"] = <<ExpireCall(0)>>
       /\ script'["A"] = <<>>
       /\ mpc'["A"] = "idle"
    \/ /\ script["A"] = <<>>
       /\ mop["A"] = "expire"
       /\ mpc["A"] = "ex_delete"
       /\ mpc'["A"] = "idle"

\* No step of expire() changes the timestamp map.
ExpireKeepsMap ==
    [][\A i \in Inst : ExpireStep(i) => entries' = entries]_vars

\* C36 as stated: expire never removes a name from the timestamp map, and
\* a second expire(0) with no process() in between, after a first that
\* deleted an entry, raises ZkNoNodeError.
C36_SecondSweepNoNode ==
    /\ ExpireKeepsMap
    /\ [][(SecondSweepEnds /\ EarlierSweepDeleted) =>
            mret'["A"] = "ZkNoNodeError"]_vars

\* C36, amended: expire never removes a name from the timestamp map, and
\* a second expire(0) with no process() in between, after a first that
\* deleted an entry, never returns normally: it raises ZkNoNodeError, or
\* ZkNoConnection when the connected event is clear at its check or the
\* transport down at a delete.
C36_SecondSweepRaises ==
    /\ ExpireKeepsMap
    /\ [][(SecondSweepEnds /\ EarlierSweepDeleted) =>
            \/ mret'["A"] = "ZkNoNodeError"
            \/ /\ mret'["A"] = "ZkNoConnection"
               /\ IF mpc["A"] = "idle" THEN ~is_connected("A")
                  ELSE KazooDown("A")]_vars

\* The second sweep of "A" has raised ZkNoNodeError: both names are still
\* in the timestamp map, and the first sweep had deleted both nodes.
C36_Witness ==
    /\ script["A"] = <<>>
    /\ mpc["A"] = "idle"
    /\ mop["A"] = "expire"
    /\ mret["A"] = "ZkNoNodeError"
    /\ Keys("A") = Names
    /\ \A n \in Names : zk_cache[n] = Absent
    /\ conn_epoch["A"] = 1

----------------------------------------------------------------------------
\* Delivery of cache entries.

\* _handle_entries of i appends the payload of n to the batch of the handler.
Fetches(i, n) ==
    /\ mpc[i] = "pr_get"
    /\ data[i][n] = Absent
    /\ data'[i][n] # Absent

\* process() of i has its listing and hands current - previous to
\* _handle_entries.
Lists(i) == mpc[i] = "pr_list" /\ mpc'[i] \in {"pr_get", "pr_handle"}

----------------------------------------------------------------------------
\* The contender node a release leaves behind.

\* get_lock_holder of i: None without a Kazoo lock, ZkNoConnection when
\* contenders() fails, None when there is no contender, else the address in
\* the first contender's identifier.
get_lock_holder(i) ==
    IF ~zk_lock[i] THEN "None"
    ELSE IF KazooDown(i) THEN "ZkNoConnection"
    ELSE IF contenders = <<>> THEN "None"
    ELSE Head(contenders)

\* C38: a release_lock that finds connected clear, called directly or by a
\* have_lock() that is about to return False, resets the local bits and
\* leaves the store alone; the contender node of an instance goes only when
\* its session expires or in a release or an acquisition of its own; and
\* get_lock_holder reports the first contender, whatever that instance's
\* have_lock() says.
C38_OfflineRelease ==
    /\ [][\A i \in Inst :
            (Leaves(i, "rl_release") /\ ~connected[i]) =>
                /\ contenders' = contenders
                /\ session' = session
                /\ ~lock'[i]
                /\ ~is_acquired'[i]]_vars
    /\ [][\A i \in Inst :
            (InSeq(contenders, i) /\ ~InSeq(contenders', i)) =>
                \/ session[i] /\ ~session'[i]
                \/ Leaves(i, "rl_release") /\ connected[i]
                \/ Leaves(i, "gl_acquire")]_vars
    /\ [](\A j \in Inst :
            (zk_lock[j] /\ kstate[j] = CONNECTED /\ contenders # <<>>)
                => get_lock_holder(j) = contenders[1])

\* have_lock() of "A" has returned False with connected clear, its bits are
\* reset, and get_lock_holder of "B" names "A".
C38_Witness ==
    /\ pc["A"] = "idle" /\ callsite["A"] = "have_lock" /\ ret["A"] = "false"
    /\ ~connected["A"] /\ ~lock["A"] /\ ~is_acquired["A"]
    /\ session["A"]
    /\ get_lock_holder("B") = "A"

----------------------------------------------------------------------------
\* old_state and the connected event.

\* C39 as stated: in every reachable state, the connected event is set
\* only with old_state CONNECTED.
C39_ConnectedOldState ==
    \A i \in Inst : connected[i] => old_state[i] = CONNECTED

\* C39, amended: the connected event is set only with old_state CONNECTED,
\* except while the worker is between its update of old_state and the
\* clear() of the handler it calls for SUSPENDED or LOST; the event is set
\* only in the last step of _state_connected, and every SUSPENDED or LOST
\* that is handled gets its handler, which clears it.
C39_ConnectedAtRest ==
    /\ [](\A i \in Inst :
            (connected[i] /\ hpc[i] \notin {"suspended", "lost"})
                => old_state[i] = CONNECTED)
    /\ [](\A i \in Inst :
            hpc[i] \in {"suspended", "lost"}
                => hpc[i] = HandlerOf(old_state[i]))
    /\ [][\A i \in Inst :
            SetsConnected(i) =>
                /\ hpc[i] \in {"connected", "autojoin"}
                /\ hpc'[i] = "get"
                /\ old_state[i] = CONNECTED]_vars
    /\ [][\A i \in Inst : \A s \in {SUSPENDED, LOST} :
            (Dequeues(i, s) /\ s # old_state[i]) =>
                /\ old_state'[i] = s
                /\ hpc'[i] = HandlerOf(s)]_vars
    /\ [][\A i \in Inst :
            (hpc[i] \in {"suspended", "lost"} /\ hpc'[i] # hpc[i]) =>
                ~connected'[i] /\ hpc'[i] = "get"]_vars

\* The event of "A" was set, cleared for a SUSPENDED and set again at the
\* end of the next CONNECTED: the worker is back in its loop.
C39_Witness ==
    /\ hook_log["A"] = <<"on_connect", "on_disconnect", "on_connect">>
    /\ connected["A"]
    /\ old_state["A"] = CONNECTED
    /\ hpc["A"] = "get"
    /\ state_events["A"] = <<>>

====
